---- MODULE Spec2Model ----
(***************************************************************************)
(* Scrape-and-cache server (src/unnamed/part_000, lines 1-232): the module *)
(* level cache, scrapeProducts() with its try/catch/finally and the        *)
(* extraction it runs in the page, the two product handlers GET            *)
(* /api/products and GET /api/products/refresh, and GET /api/image-proxy.  *)
(*                                                                         *)
(* Node runs one handler fragment at a time: everything between two awaits *)
(* is one atomic action.                                                   *)
(*                                                                         *)
(* The specifications share the state and the handlers:                    *)
(*   Spec         up to MaxReq requests in flight; each handler has the    *)
(*                one await of its code, `await scrapeProducts()`, which   *)
(*                later resolves with a record list or rejects.            *)
(*   SpecHistory  Spec, with the cache each scrape started from and the    *)
(*                order of the requests on record.                         *)
(*   SpecScrape   one request at a time; scrapeProducts() is taken await   *)
(*                by await, with its browser and its finally clause.       *)
(*   SpecScrapeLive  SpecScrape in which every pending await settles.      *)
(*   SpecExtract  the readiness wait and the page.evaluate callback of one *)
(*                scrape, card by card and lookup by lookup.               *)
(*   SpecProxy    the image proxy and the health check, next to one        *)
(*                product request at a time.                               *)
(*   SpecFront    one dashboard (src/frontend/app/page.tsx or              *)
(*                app/demo/page.tsx): its fetches, buttons and edits.      *)
(*   SpecBoth     the extraction of the server and that of the standalone  *)
(*                script (lines 234-354), each run on the same cards.      *)
(* The awaits inside scrapeProducts() read and write only locals of the    *)
(* call, so taking them in one step changes nothing a handler can see.     *)
(***************************************************************************)
EXTENDS Integers, Sequences, FiniteSets, TLC

\* ---------------------------------------------------------------- bounds
MaxReq == 2          \* request slots that can be in flight together
MaxLate == 2         \* the clock reaches CACHE_DURATION + MaxLate
MaxItems == 2        \* distinct products the scraped page can show
MaxCards == 3        \* elements a selector matches on the rendered page

\* ------------------------------------------------------- program constants
CACHE_DURATION == 5 * 60 * 1000
SCROLL_CYCLES == 6
Null == 0            \* JS null (falsy; Date.now() is never 0)
READY_LINKS == 3     \* productLinks.length >= 3

Req == 1 .. MaxReq

\* Values Date.now() takes in the model: 1 and 2, and the first MaxLate
\* instants after CACHE_DURATION, so that two readings can be 1,
\* CACHE_DURATION - 1, CACHE_DURATION or CACHE_DURATION + 1 apart.
Instants == {1, 2} \cup {CACHE_DURATION + k : k \in 1 .. MaxLate}

\* Record lists page.evaluate can return: the first n products of the page,
\* n = 0 being a page that yields no record.
RecordLists == {[k \in 1 .. n |-> k] : n \in 0 .. MaxItems}

\* The awaits of scrapeProducts(), in program order.
TryStages == <<"launch", "newPage", "setUserAgent", "goto", "waitForFunction", "scroll", "extract">>
ScrapeStages == {TryStages[k] : k \in 1 .. Len(TryStages)} \cup {"close"}

VARIABLES
  clock,            \* Date.now()
  cachedProducts,   \* line 20
  lastScrapeTime,   \* line 21
  cacheDoneAt,      \* history: clock when the cached records' scrape settled
  kind,             \* per request: "products" or "refresh"
  pc,               \* per request: "idle" or the await it is suspended at
  now,              \* per request: const now of line 140
  browser,          \* per request: let browser of line 25
  i,                \* per request: loop counter of line 59
  outcome,          \* per request: completion of the try block, kept over finally
  before,           \* history, per request: the cache when its scrape started,
                    \* the scrapes then in flight, whether a later one has stored
  recording,        \* whether before is recorded (SpecHistory) or not
  lastResp,         \* the response sent since the last request suspended
  dom,              \* the rendered page the extraction reads
  ev,               \* frame of the page.evaluate callback of lines 65-126
  hist,             \* history: what became of the cards taken so far
  px,               \* frame and response of GET /api/image-proxy
  hl,               \* the response of GET /api/health
  fe,               \* one dashboard instance: its React state and its fetches
  run               \* one list of cards and what each of the two scrapers
                    \* (server, lines 65-126; script, lines 287-345) made of it

\* What the product handlers and scrapeProducts()'s awaits never touch.
otherVars == <<hl, fe, run>>
pageAndProxy == <<dom, ev, hist, px, otherVars>>

vars == <<clock, cachedProducts, lastScrapeTime, cacheDoneAt, kind, pc, now,
          browser, i, outcome, before, recording, lastResp, dom, ev, hist, px,
          hl, fe, run>>

NoOutcome == [type |-> "none", val |-> <<>>, err |-> ""]
Returned(val) == [type |-> "return", val |-> val, err |-> ""]
Thrown(err) == [type |-> "throw", val |-> <<>>, err |-> err]
NoSnapshot == [products |-> <<>>, time |-> Null, ahead |-> {}, overtaken |-> FALSE]

\* A response: its HTTP status and the keys of its JSON body.  A key that is
\* not in fields is absent from the body; its slot then holds a filler.
NoResp ==
  [kind |-> "", status |-> 0, fields |-> {}, success |-> FALSE,
   count |-> 0, cached |-> FALSE, products |-> <<>>, error |-> ""]

\* res.json({success: true, count, cached, products}), lines 145-150, 157-162
ProductsJson(cached, products) ==
  [kind |-> "products", status |-> 200,
   fields |-> {"success", "count", "cached", "products"}, success |-> TRUE,
   count |-> Len(products), cached |-> cached, products |-> products, error |-> ""]

\* RefreshJson with the cached key of lines 157-162.
RefreshJson_WithCached(products) ==
  [kind |-> "refresh", status |-> 200,
   fields |-> {"success", "count", "cached", "products"}, success |-> TRUE,
   count |-> Len(products), cached |-> FALSE, products |-> products, error |-> ""]

\* res.json({success: true, count, products}), lines 178-182
RefreshJson(products) ==
  [kind |-> "refresh", status |-> 200,
   fields |-> {"success", "count", "products"}, success |-> TRUE,
   count |-> Len(products), cached |-> FALSE, products |-> products, error |-> ""]

\* res.status(500).json({success: false, error: error.message}), lines 164-167, 184-187
ErrorJson(k, message) ==
  [kind |-> k, status |-> 500, fields |-> {"success", "error"},
   success |-> FALSE, count |-> 0, cached |-> FALSE, products |-> <<>>,
   error |-> message]

\* A value that may be missing (undefined, null, no element found): None,
\* or Some(v).
None == <<>>
Some(v) == <<v>>

\* No page is being evaluated: the states of Spec, SpecScrape, SpecHistory.
NoDom == [links |-> 0]
NoEval ==
  [pc |-> "idle", j |-> 0, sel |-> 0, n |-> 0, k |-> 0, seen |-> <<>>,
   results |-> <<>>, url |-> "", title |-> None, price |-> ""]
NoHist == [again |-> {}, fate |-> <<>>]

\* Headers of the image-proxy response, as res.setHeader left them.
NoHeaders == [contentType |-> None, cacheControl |-> None]

\* No response sent (yet) by the image proxy.
NoImageResp == [status |-> 0, headers |-> NoHeaders, error |-> None, bytes |-> FALSE]

\* No card list has been handed to the scrapers.
NoRun == [cards |-> <<>>, server |-> None, script |-> None]

\* No dashboard is open.
NoFront ==
  [page |-> "none", effect |-> FALSE, loading |-> FALSE, refreshing |-> FALSE,
   error |-> None, products |-> <<>>, isCached |-> FALSE, lastUpdated |-> Null,
   trackedProducts |-> <<>>, alerts |-> <<>>, toastMessage |-> None,
   pending |-> <<>>]

\* GET /api/health before its first request: nothing sent.
NoHealth == [sent |-> 0, status |-> "", timestamp |-> Null]

\* The image proxy before its first request: no imageUrl, no fetch made.
NoProxy ==
  [pc |-> "idle", imageUrl |-> None, fetches |-> 0, headers |-> NoHeaders,
   resp |-> NoImageResp, sent |-> 0]

Init ==
  /\ clock = 1
  /\ cachedProducts = <<>>
  /\ lastScrapeTime = Null
  /\ cacheDoneAt = Null
  /\ kind = [r \in Req |-> "none"]
  /\ pc = [r \in Req |-> "idle"]
  /\ now = [r \in Req |-> Null]
  /\ browser = [r \in Req |-> "none"]
  /\ i = [r \in Req |-> 0]
  /\ outcome = [r \in Req |-> NoOutcome]
  /\ before = [r \in Req |-> NoSnapshot]
  /\ recording = FALSE
  /\ lastResp = NoResp
  /\ dom = NoDom
  /\ ev = NoEval
  /\ hist = NoHist
  /\ px = NoProxy
  /\ hl = NoHealth
  /\ fe = NoFront
  /\ run = NoRun

\* The same, with the history variable before recorded.
InitHistory ==
  /\ clock = 1
  /\ cachedProducts = <<>>
  /\ lastScrapeTime = Null
  /\ cacheDoneAt = Null
  /\ kind = [r \in Req |-> "none"]
  /\ pc = [r \in Req |-> "idle"]
  /\ now = [r \in Req |-> Null]
  /\ browser = [r \in Req |-> "none"]
  /\ i = [r \in Req |-> 0]
  /\ outcome = [r \in Req |-> NoOutcome]
  /\ before = [r \in Req |-> NoSnapshot]
  /\ recording = TRUE
  /\ lastResp = NoResp
  /\ dom = NoDom
  /\ ev = NoEval
  /\ hist = NoHist
  /\ px = NoProxy
  /\ hl = NoHealth
  /\ fe = NoFront
  /\ run = NoRun

\* Time passes between any two handler fragments.
Tick ==
  /\ \E t \in Instants : t > clock /\ clock' = t
  /\ UNCHANGED <<cachedProducts, lastScrapeTime, cacheDoneAt, kind, pc, now,
                 browser, i, outcome, before, recording, lastResp, pageAndProxy>>

\* CacheValid with CACHE_DURATION taken in seconds (5 * 60, the * 1000 lost).
CacheValid_Seconds(t) ==
  /\ Len(cachedProducts) > 0
  /\ lastScrapeTime # Null
  /\ t - lastScrapeTime < 5 * 60

\* CacheValid with <= for <: an entry exactly CACHE_DURATION old is served.
CacheValid_Le(t) ==
  /\ Len(cachedProducts) > 0
  /\ lastScrapeTime # Null
  /\ t - lastScrapeTime <= CACHE_DURATION

\* CacheValid without the age test: any stamped, non-empty entry is served.
CacheValid_NoAge(t) ==
  /\ Len(cachedProducts) > 0
  /\ lastScrapeTime # Null

\* Line 143: the cache is served when it holds records, has a timestamp and
\* is younger than CACHE_DURATION at time t.
CacheValid(t) ==
  /\ Len(cachedProducts) > 0
  /\ lastScrapeTime # Null
  /\ t - lastScrapeTime < CACHE_DURATION

\* scrapeProducts() is called: it runs to its first await, puppeteer.launch
\* (lines 24-36); the handler is suspended on the returned promise.
CallScrape(r, k, t) ==
  /\ kind' = [kind EXCEPT ![r] = k]
  /\ pc' = [pc EXCEPT ![r] = "launch"]
  /\ now' = [now EXCEPT ![r] = t]
  /\ before' = IF recording
                  THEN [before EXCEPT ![r] = [products |-> cachedProducts,
                                              time |-> lastScrapeTime,
                                              ahead |-> {q \in Req : pc[q] # "idle"},
                                              overtaken |-> FALSE]]
                  ELSE before
  /\ lastResp' = NoResp
  /\ UNCHANGED <<clock, cachedProducts, lastScrapeTime, cacheDoneAt, browser, i,
                 outcome, recording, pageAndProxy>>

\* GET /api/products up to its first await (lines 138-154).
GetProducts(r) ==
  /\ pc[r] = "idle"
  /\ IF CacheValid(clock)
       THEN /\ lastResp' = ProductsJson(TRUE, cachedProducts)
            /\ UNCHANGED <<clock, cachedProducts, lastScrapeTime, cacheDoneAt, kind,
                           pc, now, browser, i, outcome, before, recording, pageAndProxy>>
       ELSE CallScrape(r, "products", clock)

\* GetRefresh answering from a valid cache as GET /api/products does.
GetRefresh_HonoursCache(r) ==
  /\ pc[r] = "idle"
  /\ IF CacheValid(clock)
       THEN /\ lastResp' = RefreshJson(cachedProducts)
            /\ UNCHANGED <<clock, cachedProducts, lastScrapeTime, cacheDoneAt, kind,
                           pc, now, browser, i, outcome, before, recording, pageAndProxy>>
       ELSE CallScrape(r, "refresh", Null)

\* GET /api/products/refresh up to its first await (lines 172-175).
GetRefresh(r) ==
  /\ pc[r] = "idle"
  /\ CallScrape(r, "refresh", Null)

\* The handler's frame is gone once it has responded.
Return(r) ==
  /\ pc' = [pc EXCEPT ![r] = "idle"]
  /\ kind' = [kind EXCEPT ![r] = "none"]
  /\ now' = [now EXCEPT ![r] = Null]
  /\ i' = [i EXCEPT ![r] = 0]
  /\ outcome' = [outcome EXCEPT ![r] = NoOutcome]
  /\ before' = [q \in Req |->
                  IF q = r \/ ~recording THEN NoSnapshot
                  ELSE [before[q] EXCEPT
                          !.ahead = @ \ {r},
                          !.overtaken = @ \/ (q \in before[r].ahead
                                                /\ lastResp'.status = 200)]]
  /\ UNCHANGED <<clock, recording, pageAndProxy>>

\* ProductsThen without line 155: the records are stored, the timestamp is not.
ProductsThen_RecordsOnly(r, val) ==
  /\ cachedProducts' = val
  /\ lastScrapeTime' = lastScrapeTime
  /\ cacheDoneAt' = clock
  /\ lastResp' = ProductsJson(FALSE, cachedProducts')

\* GET /api/products after `await scrapeProducts()` resolved with val
\* (lines 154-162): both assignments and the response are one fragment.
ProductsThen(r, val) ==
  /\ cachedProducts' = val
  /\ lastScrapeTime' = now[r]
  /\ cacheDoneAt' = clock
  /\ lastResp' = ProductsJson(FALSE, cachedProducts')

\* GET /api/products/refresh after `await scrapeProducts()` resolved with
\* val (lines 175-182).
RefreshThen(r, val) ==
  /\ cachedProducts' = val
  /\ lastScrapeTime' = clock
  /\ cacheDoneAt' = clock
  /\ lastResp' = RefreshJson(cachedProducts')

\* HandlerThen building its response before the assignment of lines 154 and
\* 175: the body carries the list the cache held until then.
HandlerThen_AnswersBeforeStoring(r, val) ==
  /\ cachedProducts' = val
  /\ lastScrapeTime' = IF kind[r] = "products" THEN now[r] ELSE clock
  /\ cacheDoneAt' = clock
  /\ lastResp' = IF kind[r] = "products"
                    THEN ProductsJson(FALSE, cachedProducts)
                    ELSE RefreshJson(cachedProducts)

HandlerThen(r, val) ==
  IF kind[r] = "products" THEN ProductsThen(r, val) ELSE RefreshThen(r, val)

\* HandlerCatch that also resets the cache to its initial entry.
HandlerCatch_ClearsCache(r, message) ==
  /\ lastResp' = ErrorJson(kind[r], message)
  /\ cachedProducts' = <<>>
  /\ lastScrapeTime' = Null
  /\ cacheDoneAt' = Null

\* HandlerCatch that answers 200 with whatever the cache holds.
HandlerCatch_AnswersSuccess(r, message) ==
  /\ lastResp' = IF kind[r] = "products"
                    THEN ProductsJson(FALSE, cachedProducts)
                    ELSE RefreshJson(cachedProducts)
  /\ UNCHANGED <<cachedProducts, lastScrapeTime, cacheDoneAt>>

\* The handler's catch clause: lines 163-168 and 183-188.
HandlerCatch(r, message) ==
  /\ lastResp' = ErrorJson(kind[r], message)
  /\ UNCHANGED <<cachedProducts, lastScrapeTime, cacheDoneAt>>

\* scrapeProducts() settles with completion o and the handler resumes.
Settle(r, o) ==
  /\ IF o.type = "return" THEN HandlerThen(r, o.val) ELSE HandlerCatch(r, o.err)
  /\ Return(r)

\* Finally that closes the browser only after `return products`: the close
\* written at the end of the try block instead of in a finally clause.
Finally_NoCloseOnThrow(r, o, b) ==
  IF b = "open" /\ o.type = "return"
    THEN /\ pc' = [pc EXCEPT ![r] = "close"]
         /\ outcome' = [outcome EXCEPT ![r] = o]
         /\ browser' = [browser EXCEPT ![r] = b]
         /\ UNCHANGED <<clock, cachedProducts, lastScrapeTime, cacheDoneAt, kind,
                        now, i, before, recording, lastResp, pageAndProxy>>
    ELSE /\ browser' = [browser EXCEPT ![r] = b]
         /\ Settle(r, o)

\* Lines 132-134: finally { if (browser) await browser.close(); } entered
\* with completion o of the try/catch.
Finally(r, o, b) ==
  IF b = "open"
    THEN /\ pc' = [pc EXCEPT ![r] = "close"]
         /\ outcome' = [outcome EXCEPT ![r] = o]
         /\ browser' = [browser EXCEPT ![r] = b]
         /\ UNCHANGED <<clock, cachedProducts, lastScrapeTime, cacheDoneAt, kind,
                        now, i, before, recording, lastResp, pageAndProxy>>
    ELSE /\ browser' = [browser EXCEPT ![r] = b]
         /\ Settle(r, o)

InTry(r) == pc[r] \in {TryStages[k] : k \in 1 .. Len(TryStages)}

\* The await the scrape is suspended at resolves and the try block runs on
\* to the next await.
Advance(r, stage) ==
  /\ pc' = [pc EXCEPT ![r] = stage]
  /\ UNCHANGED <<clock, cachedProducts, lastScrapeTime, cacheDoneAt, kind, now,
                 browser, i, outcome, before, recording, lastResp, pageAndProxy>>

\* Lines 28-38: puppeteer.launch resolves; browser is assigned.
LaunchOk(r) ==
  /\ pc[r] = "launch"
  /\ pc' = [pc EXCEPT ![r] = "newPage"]
  /\ browser' = [browser EXCEPT ![r] = "open"]
  /\ UNCHANGED <<clock, cachedProducts, lastScrapeTime, cacheDoneAt, kind, now,
                 i, outcome, before, recording, lastResp, pageAndProxy>>

\* Lines 38-42: browser.newPage resolves.
NewPageOk(r) == pc[r] = "newPage" /\ Advance(r, "setUserAgent")

\* Lines 40-48: page.setUserAgent resolves.
SetUserAgentOk(r) == pc[r] = "setUserAgent" /\ Advance(r, "goto")

\* Pages at the time of the readiness wait and after, by how many
\* a[href*="/product/"] they hold.
Doms == {[links |-> n] : n \in 0 .. MaxCards}

\* Lines 45-56: page.goto resolves (network idle within 60 s); the page
\* that loaded is the one the readiness wait polls.
GotoOk(r) ==
  /\ pc[r] = "goto"
  /\ pc' = [pc EXCEPT ![r] = "waitForFunction"]
  /\ dom' \in Doms
  /\ UNCHANGED <<clock, cachedProducts, lastScrapeTime, cacheDoneAt, kind, now,
                 browser, i, outcome, before, recording, lastResp, ev, hist, px,
                 otherVars>>

\* The readiness predicate with 4 for 3.
Ready_FourLinks == dom.links >= READY_LINKS + 1

\* Lines 51-54: the predicate page.waitForFunction polls.
Ready == dom.links >= READY_LINKS

\* WaitForFunctionOk resolving whatever the page holds.
WaitForFunctionOk_Unconditional(r) ==
  /\ pc[r] = "waitForFunction"
  /\ Advance(r, "scroll")

\* Lines 50-58: page.waitForFunction resolves: its predicate returned true
\* within 30 s.
WaitForFunctionOk(r) ==
  /\ pc[r] = "waitForFunction"
  /\ Ready
  /\ Advance(r, "scroll")

\* ScrollCycle whose counter starts over instead of reaching 6.
ScrollCycle_Wraps(r) ==
  /\ pc[r] = "scroll"
  /\ i[r] < SCROLL_CYCLES
  /\ i' = [i EXCEPT ![r] = (@ + 1) % SCROLL_CYCLES]
  /\ UNCHANGED <<clock, cachedProducts, lastScrapeTime, cacheDoneAt, kind, pc,
                 now, browser, outcome, before, recording, lastResp, pageAndProxy>>

\* Lines 59-62: one scrollBy and its 2 s pause.
ScrollCycle(r) ==
  /\ pc[r] = "scroll"
  /\ i[r] < SCROLL_CYCLES
  /\ i' = [i EXCEPT ![r] = @ + 1]
  /\ UNCHANGED <<clock, cachedProducts, lastScrapeTime, cacheDoneAt, kind, pc,
                 now, browser, outcome, before, recording, lastResp, pageAndProxy>>

\* ScrollDone leaving the loop one cycle early.
ScrollDone_AfterFive(r) ==
  /\ pc[r] = "scroll"
  /\ ~(i[r] < SCROLL_CYCLES - 1)
  /\ pc' = [pc EXCEPT ![r] = "extract"]
  /\ i' = [i EXCEPT ![r] = 0]
  /\ UNCHANGED <<clock, cachedProducts, lastScrapeTime, cacheDoneAt, kind, now,
                 browser, outcome, before, recording, lastResp, pageAndProxy>>

\* Lines 58-65: the loop ends, the first page.evaluate resolves.
ScrollDone(r) ==
  /\ pc[r] = "scroll"
  /\ ~(i[r] < SCROLL_CYCLES)
  /\ pc' = [pc EXCEPT ![r] = "extract"]
  /\ i' = [i EXCEPT ![r] = 0]
  /\ UNCHANGED <<clock, cachedProducts, lastScrapeTime, cacheDoneAt, kind, now,
                 browser, outcome, before, recording, lastResp, pageAndProxy>>

\* Lines 65-128, 132-134: the second page.evaluate resolves with the record
\* list, `return products` completes the try block, finally runs.
ExtractOk(r) ==
  /\ pc[r] = "extract"
  /\ \E products \in RecordLists : Finally(r, Returned(products), browser[r])

\* StageThrows that answers a failed readiness wait by navigating again.
StageThrows_RetriesNavigation(r) ==
  /\ InTry(r)
  /\ IF pc[r] = "waitForFunction"
       THEN Advance(r, "goto")
       ELSE Finally(r, Thrown(pc[r]), browser[r])

\* Lines 129-134: the await the scrape is suspended at rejects; catch logs
\* and rethrows, finally runs.
StageThrows(r) ==
  /\ InTry(r)
  /\ Finally(r, Thrown(pc[r]), browser[r])

\* Line 133: browser.close resolves; the completion of the try/catch stands.
CloseOk(r) ==
  /\ pc[r] = "close"
  /\ browser' = [browser EXCEPT ![r] = "none"]
  /\ Settle(r, outcome[r])

\* Line 133: browser.close rejects; its error replaces the completion of
\* the try/catch.  The browser process is gone either way.
CloseThrows(r) ==
  /\ pc[r] = "close"
  /\ browser' = [browser EXCEPT ![r] = "none"]
  /\ Settle(r, Thrown("close"))

\* `await scrapeProducts()` of lines 154 and 175 resolves: every await of
\* lines 24-135 resolved and the call returned the list of line 128.
ScrapeResolves(r) ==
  /\ pc[r] = "launch"
  /\ UNCHANGED browser
  /\ \E products \in RecordLists : Settle(r, Returned(products))

\* `await scrapeProducts()` rejects: one await of lines 24-135 rejected and
\* the call rethrew that error, or the error of browser.close().
ScrapeRejects(r) ==
  /\ pc[r] = "launch"
  /\ UNCHANGED browser
  /\ \E stage \in ScrapeStages : Settle(r, Thrown(stage))

Next ==
  \/ Tick
  \/ \E r \in Req : GetProducts(r)
  \/ \E r \in Req : GetRefresh(r)
  \/ \E r \in Req : ScrapeResolves(r)
  \/ \E r \in Req : ScrapeRejects(r)

Spec == Init /\ [][Next]_vars

\* One request at a time, in slot 1, its scrape taken await by await.
NextScrape ==
  \/ Tick
  \/ GetProducts(1)
  \/ GetRefresh(1)
  \/ LaunchOk(1)
  \/ NewPageOk(1)
  \/ SetUserAgentOk(1)
  \/ GotoOk(1)
  \/ WaitForFunctionOk(1)
  \/ ScrollCycle(1)
  \/ ScrollDone(1)
  \/ ExtractOk(1)
  \/ StageThrows(1)
  \/ CloseOk(1)
  \/ CloseThrows(1)

SpecScrape == Init /\ [][NextScrape]_vars

\* The awaits of lines 24-135 for the request in slot 1: each is a promise
\* of puppeteer (or the 2 s timer of line 61) that settles, page.goto and
\* page.waitForFunction at the latest by their timeouts of lines 47 and 55.
ScrapeStep ==
  \/ LaunchOk(1)
  \/ NewPageOk(1)
  \/ SetUserAgentOk(1)
  \/ GotoOk(1)
  \/ WaitForFunctionOk(1)
  \/ ScrollCycle(1)
  \/ ScrollDone(1)
  \/ ExtractOk(1)
  \/ StageThrows(1)
  \/ CloseOk(1)
  \/ CloseThrows(1)

\* SpecScrape with every pending await settling and its continuation run
\* by the event loop.
SpecScrapeLive == SpecScrape /\ WF_vars(ScrapeStep)

\* Spec with the cache each scrape started from, and the scrapes requested
\* before it, on record.
SpecHistory == InitHistory /\ [][Next]_vars

\* ------------------------------------------------------------------------
\* Extraction: the page.evaluate callback of lines 65-126.
\*
\* JS strings are TLA+ strings.  What the page holds is read as the callback
\* reads it: each querySelector, property or attribute is an input drawn when
\* the code asks for it, so a lookup the || chains never reach is never drawn.

\* Line 44, and its origin: what the browser resolves a relative URL against.
PageUrl == "https://uae.sharafdg.com/c/home_appliances/"
Origin == "https://uae.sharafdg.com"

Char(s, n) == SubSeq(s, n, n)

\* s.startsWith(p)
StartsWith(s, p) == Len(s) >= Len(p) /\ SubSeq(s, 1, Len(p)) = p

\* s.includes(p)
Includes(s, p) ==
  \E n \in 1 .. (Len(s) - Len(p) + 1) : SubSeq(s, n, n + Len(p) - 1) = p

\* \s of a regular expression, as far as the pages of the model go.
IsSpace(c) == c \in {" ", "\n"}

RECURSIVE TrimStart(_)
TrimStart(s) ==
  IF Len(s) > 0 /\ IsSpace(Char(s, 1)) THEN TrimStart(Tail(s)) ELSE s

RECURSIVE TrimEnd(_)
TrimEnd(s) ==
  IF Len(s) > 0 /\ IsSpace(Char(s, Len(s)))
    THEN TrimEnd(SubSeq(s, 1, Len(s) - 1))
    ELSE s

\* s.trim()
Trim(s) == TrimEnd(TrimStart(s))

\* s.replace(/\s+/g, " ") of line 106
RECURSIVE CollapseSpaces(_)
CollapseSpaces(s) ==
  IF Len(s) = 0 THEN ""
  ELSE IF IsSpace(Char(s, 1)) THEN " " \o CollapseSpaces(TrimStart(s))
  ELSE Char(s, 1) \o CollapseSpaces(Tail(s))

\* /\s+D\s+/ has a match that starts at position n of s.
SeparatorAt(s, n) ==
  \E d \in (n + 1) .. (Len(s) - 1) :
    /\ \A m \in n .. (d - 1) : IsSpace(Char(s, m))
    /\ Char(s, d) = "D"
    /\ IsSpace(Char(s, d + 1))

\* s.split(/\s+D\s+/)[0] of line 107: s up to the leftmost match, or all of s.
BeforeSeparator(s) ==
  IF \E n \in 1 .. Len(s) : SeparatorAt(s, n)
    THEN LET first == CHOOSE n \in 1 .. Len(s) :
                        /\ SeparatorAt(s, n)
                        /\ \A m \in 1 .. (n - 1) : ~SeparatorAt(s, m)
         IN  SubSeq(s, 1, first - 1)
    ELSE s

\* s.replace(/^D\s*/, "AED ") of line 107
CurrencyPrefix(s) ==
  IF StartsWith(s, "D") THEN "AED " \o TrimStart(Tail(s)) ELSE s

\* A JS value is truthy: here, a string that is there and is not "".
Truthy(v) == v # None /\ v[1] # ""

\* a || b
Or(a, b) == IF Truthy(a) THEN a ELSE b

\* The href / src property of an element whose attribute is attr: the
\* attribute resolved against the page, "" when there is no attribute.
Resolve(attr) ==
  IF attr = None THEN ""
  ELSE IF Includes(attr[1], "://") THEN attr[1]
  ELSE IF StartsWith(attr[1], "//") THEN "https:" \o attr[1]
  ELSE IF StartsWith(attr[1], "/") THEN Origin \o attr[1]
  ELSE PageUrl \o attr[1]

\* Lines 69-74.
Selectors ==
  <<"[data-testid=\"product-card\"]", "[class*=\"product-card\"]",
    "[class*=\"ProductCard\"]", "a[href*=\"/product/\"]">>

\* Lines 96-100 and 103-105: the lookups of the two || chains, in order.
TitleLookups == <<"h2", "h3", "h4", "[class*='title']", "[class*='name']">>
PriceLookups == <<"[data-testid='price']", "[class*='price']", "[class*='Price']">>

\* href attributes of the anchors of the page: product links (two of them
\* to the same product, written differently) and others.
ProductHrefs == {"/product/1", "https://uae.sharafdg.com/product/1", "/product/2"}
OtherHrefs == {"", "/c/tv/"}

\* A card, as far as lines 86-93 read it: its tag, its own href attribute (tag
\* a), the first a[href*="/product/"] inside it and its closest anchor
\* ancestor (other tags), each given by its href attribute.
LinkCards ==
  {[tag |-> "a", href |-> h, inner |-> None, closest |-> None] :
     h \in {None} \cup {Some(a) : a \in ProductHrefs \cup OtherHrefs}}
BoxCards ==
  {[tag |-> "div", href |-> None, inner |-> n, closest |-> c] :
     n \in {None} \cup {Some(a) : a \in ProductHrefs},
     c \in {None, Some("/product/2")}}

\* What querySelectorAll(Selectors[s]) can hold: any element for the three
\* card selectors, anchors with a product href for the last one.
CardsOf(s) ==
  IF s = 4
    THEN {c \in LinkCards : c.href # None /\ c.href[1] \in ProductHrefs}
    ELSE LinkCards \cup BoxCards

\* innerText of the elements the lookups find.
TitleTexts == {" \n", " Oven\n", "N/A"}
PriceTexts == {"\n ", "D  9\n D 8", "N/A"}
TitleEls == {None} \cup {Some(t) : t \in TitleTexts}
PriceEls == {None} \cup {Some(t) : t \in PriceTexts}

\* The img of the container: its src and data-src attributes.
ImgEls ==
  {None} \cup
  {Some([src |-> a, dataSrc |-> d]) :
     a \in {None, Some("//cdn.sharafdg.com/i.jpg")},
     d \in {None, Some(""), Some("//cdn.sharafdg.com/i.jpg"), Some("/media/i.jpg")}}

\* LinkEl that falls back on the anchor wrapping the card.
LinkEl_OrClosest(card) ==
  IF card.tag = "a" THEN Some(card.href)
  ELSE IF card.inner # None THEN Some(card.inner)
  ELSE IF card.closest # None THEN Some(card.closest)
  ELSE None

\* Line 86: card.matches("a") ? card : card.querySelector('a[href*="/product/"]'),
\* the anchor given by its href attribute inside Some, None for null.
LinkEl(card) == IF card.tag = "a" THEN Some(card.href) ELSE
                IF card.inner = None THEN None ELSE Some(card.inner)

\* Line 89: linkEl.href || linkEl.getAttribute("href") || ""
Url(linkEl) == Or(Or(Some(Resolve(linkEl[1])), linkEl[1]), Some(""))[1]

\* Line 90 without seen.has(url): every card with a product link goes on.
Skips_NoDedup(url, seen) == ~Includes(url, "/product/")

\* Line 90: !url.includes("/product/") || seen.has(url)
Skips(url, seen) ==
  \/ ~Includes(url, "/product/")
  \/ \E n \in 1 .. Len(seen) : seen[n] = url

\* Lines 96-100, one lookup: container.querySelector(..)?.innerText?.trim()
TrimmedText(el) == IF el = None THEN None ELSE Some(Trim(el[1]))

\* Lines 106-107, priceEl being the element the chain of 102-105 ended with.
Price(priceEl) ==
  LET text == Or(IF priceEl = None THEN None
                 ELSE Some(Trim(CollapseSpaces(priceEl[1]))), Some(""))[1]
  IN  Or(Some(CurrencyPrefix(BeforeSeparator(text))), Some(text))[1]

\* Line 110: img?.src || img?.getAttribute("data-src") || ""
RawImage(img) ==
  Or(Or(IF img = None THEN None ELSE Some(Resolve(img[1].src)),
        IF img = None THEN None ELSE img[1].dataSrc),
     Some(""))[1]

\* Lines 110-112.
Image(img) ==
  LET image == RawImage(img)
  IN  IF StartsWith(image, "//") THEN "https:" \o image ELSE image

\* Line 114 failing nothing: every card that got this far is pushed.
Pushes_Always(title, price) == TRUE

\* Line 114: if (title || price)
Pushes(title, price) == Truthy(title) \/ price # ""

\* The record of lines 115-121 numbered by the card's position on the page.
NewRecord_CardIndex(results, title, price, image, url) ==
  [id |-> ev.k, title |-> Or(title, Some("N/A"))[1],
   price |-> Or(Some(price), Some("N/A"))[1],
   image |-> Or(Some(image), Some(""))[1], url |-> url]

\* Lines 115-121.
NewRecord(results, title, price, image, url) ==
  [id |-> Len(results) + 1, title |-> Or(title, Some("N/A"))[1],
   price |-> Or(Some(price), Some("N/A"))[1],
   image |-> Or(Some(image), Some(""))[1], url |-> url]

InitExtract ==
  /\ clock = 1
  /\ cachedProducts = <<>>
  /\ lastScrapeTime = Null
  /\ cacheDoneAt = Null
  /\ kind = [r \in Req |-> "none"]
  /\ pc = [r \in Req |-> "idle"]
  /\ now = [r \in Req |-> Null]
  /\ browser = [r \in Req |-> "none"]
  /\ i = [r \in Req |-> 0]
  /\ outcome = [r \in Req |-> NoOutcome]
  /\ before = [r \in Req |-> NoSnapshot]
  /\ recording = FALSE
  /\ lastResp = NoResp
  /\ dom \in Doms
  /\ ev = [NoEval EXCEPT !.pc = "waitForFunction"]
  /\ hist = NoHist
  /\ px = NoProxy
  /\ hl = NoHealth
  /\ fe = NoFront
  /\ run = NoRun

serverVars ==
  <<clock, cachedProducts, lastScrapeTime, cacheDoneAt, kind, pc, now, browser,
    i, outcome, before, recording, lastResp>>

\* Lines 50-56: the predicate comes true within 30 s.  (The scroll of lines
\* 58-63 reads and writes nothing the extraction sees.)
WaitForFunctionReady ==
  /\ ev.pc = "waitForFunction"
  /\ Ready
  /\ ev' = [ev EXCEPT !.pc = "selectors", !.j = 1]
  /\ UNCHANGED <<serverVars, otherVars, dom, hist, px>>

\* Lines 50-56: it does not, and page.waitForFunction rejects.
WaitForFunctionTimeout ==
  /\ ev.pc = "waitForFunction"
  /\ ~Ready
  /\ ev' = [ev EXCEPT !.pc = "timeout"]
  /\ UNCHANGED <<serverVars, otherVars, dom, hist, px>>

\* SelectCards without the break of line 81: every selector is tried and the
\* last one that matches supplies the cards.
SelectCards_LastMatch(n) ==
  /\ ev.pc = "selectors"
  /\ n \in 0 .. MaxCards
  /\ ev.j = Len(Selectors) => n = dom.links
  /\ LET found == IF n > 0 THEN [ev EXCEPT !.sel = ev.j, !.n = n] ELSE ev
     IN  IF ev.j = Len(Selectors)
           THEN ev' = [found EXCEPT !.pc = "card", !.j = 0]
           ELSE ev' = [found EXCEPT !.j = @ + 1]
  /\ UNCHANGED <<serverVars, otherVars, dom, hist, px>>

\* Lines 76-83: the next selector of the list matches n elements; the loop
\* ends at the first one that matches any, or with the list (cards stays [],
\* ev.sel stays 0).  The last selector matches the dom.links product links.
SelectCards(n) ==
  /\ ev.pc = "selectors"
  /\ n \in 0 .. MaxCards
  /\ ev.j = Len(Selectors) => n = dom.links
  /\ IF n > 0
       THEN ev' = [ev EXCEPT !.pc = "card", !.sel = ev.j, !.n = n, !.j = 0]
       ELSE IF ev.j = Len(Selectors)
         THEN ev' = [ev EXCEPT !.pc = "card", !.j = 0]
         ELSE ev' = [ev EXCEPT !.j = @ + 1]
  /\ UNCHANGED <<serverVars, otherVars, dom, hist, px>>

\* Lines 85-93: the loop takes the next card and resolves its link.
NextCard(card) ==
  /\ ev.pc = "card"
  /\ ev.k < ev.n
  /\ card \in CardsOf(ev.sel)
  /\ LET linkEl == LinkEl(card)
         url == Url(linkEl)
     IN  IF linkEl = None \/ ~Includes(url, "/product/")
           THEN /\ ev' = [ev EXCEPT !.k = @ + 1]
                /\ hist' = [hist EXCEPT !.fate = Append(@, "unlinked")]
           ELSE IF Skips(url, ev.seen)
             THEN /\ ev' = [ev EXCEPT !.k = @ + 1]
                  /\ hist' = [hist EXCEPT !.again = @ \cup {url},
                                           !.fate = Append(@, "duplicate")]
             ELSE /\ ev' = [ev EXCEPT !.k = @ + 1, !.seen = Append(@, url),
                                      !.url = url, !.pc = "title", !.j = 1]
                  /\ hist' = hist
  /\ UNCHANGED <<serverVars, otherVars, dom, px>>

\* TitleLookup chained on the elements, as the price chain of lines 102-105
\* is: the first element found ends the chain, whatever its text.
TitleLookup_FirstElement(el) ==
  /\ ev.pc = "title"
  /\ el \in TitleEls
  /\ LET text == TrimmedText(el)
     IN  IF el # None \/ ev.j = Len(TitleLookups)
           THEN ev' = [ev EXCEPT !.title = text, !.pc = "price", !.j = 1]
           ELSE ev' = [ev EXCEPT !.j = @ + 1]
  /\ UNCHANGED <<serverVars, otherVars, dom, hist, px>>

\* Lines 95-100: the next lookup of the title chain finds el (or nothing);
\* the chain ends at the first truthy text, or with its last lookup.
TitleLookup(el) ==
  /\ ev.pc = "title"
  /\ el \in TitleEls
  /\ LET text == TrimmedText(el)
     IN  IF Truthy(text) \/ ev.j = Len(TitleLookups)
           THEN ev' = [ev EXCEPT !.title = text, !.pc = "price", !.j = 1]
           ELSE ev' = [ev EXCEPT !.j = @ + 1]
  /\ UNCHANGED <<serverVars, otherVars, dom, hist, px>>

\* Lines 102-107: the next lookup of the price chain finds el (or nothing);
\* the chain ends at the first element found, or with its last lookup.
PriceLookup(el) ==
  /\ ev.pc = "price"
  /\ el \in PriceEls
  /\ IF el # None \/ ev.j = Len(PriceLookups)
       THEN ev' = [ev EXCEPT !.price = Price(el), !.pc = "image", !.j = 0]
       ELSE ev' = [ev EXCEPT !.j = @ + 1]
  /\ UNCHANGED <<serverVars, otherVars, dom, hist, px>>

\* Lines 109-122: the image is read and the record pushed, or not.
PushCard(img) ==
  /\ ev.pc = "image"
  /\ img \in ImgEls
  /\ ev' = [ev EXCEPT
              !.results = IF Pushes(ev.title, ev.price)
                            THEN Append(@, NewRecord(@, ev.title, ev.price, Image(img), ev.url))
                            ELSE @,
              !.pc = "card", !.url = "", !.title = None, !.price = ""]
  /\ hist' = [hist EXCEPT !.fate = Append(@, IF Pushes(ev.title, ev.price)
                                               THEN "pushed" ELSE "fieldless")]
  /\ UNCHANGED <<serverVars, otherVars, dom, px>>

\* Line 125: return results.
ReturnResults ==
  /\ ev.pc = "card"
  /\ ~(ev.k < ev.n)
  /\ ev' = [ev EXCEPT !.pc = "done"]
  /\ UNCHANGED <<serverVars, otherVars, dom, hist, px>>

NextExtract ==
  \/ WaitForFunctionReady
  \/ WaitForFunctionTimeout
  \/ \E n \in 0 .. MaxCards : SelectCards(n)
  \/ \E card \in LinkCards \cup BoxCards : NextCard(card)
  \/ \E el \in TitleEls : TitleLookup(el)
  \/ \E el \in PriceEls : PriceLookup(el)
  \/ \E img \in ImgEls : PushCard(img)
  \/ ReturnResults

\* The readiness wait and the extraction of one scrape, over every page of
\* Doms and every card, text and image the lookups can find.
SpecExtract == InitExtract /\ [][NextExtract]_vars

\* ------------------------------------------------------------------------
\* The callback of lines 65-126 as a function of the cards, and the callback
\* of the standalone script, lines 287-345.

FirstIn(S) == CHOOSE n \in S : \A m \in S : n <= m

\* The contents of a card, titles and prices being what the five title
\* lookups and the three price lookups find in its container: nothing but an
\* image; a title under the third lookup and a blank price element; a blank
\* title, a price and a lazily loaded image.
Contents ==
  {[titles |-> <<None, None, None, None, None>>, prices |-> <<None, None, None>>,
    img |-> Some([src |-> Some("//cdn.sharafdg.com/i.jpg"), dataSrc |-> None])],
   [titles |-> <<Some(" \n"), None, Some(" Oven\n"), Some("N/A"), None>>,
    prices |-> <<Some("\n "), Some("D  9\n D 8"), None>>, img |-> None],
   [titles |-> <<None, None, None, None, Some(" \n")>>,
    prices |-> <<None, Some("D  9\n D 8"), None>>,
    img |-> Some([src |-> None, dataSrc |-> Some("//cdn.sharafdg.com/i.jpg")])]}

\* The links of a card: anchors to product 1 (written in two ways) and to a
\* category, a box around a link to product 2, a box inside such a link.
Links ==
  {[tag |-> "a", href |-> Some("/product/1"), inner |-> None, closest |-> None],
   [tag |-> "a", href |-> Some("https://uae.sharafdg.com/product/1"),
    inner |-> None, closest |-> None],
   [tag |-> "a", href |-> Some("/c/tv/"), inner |-> None, closest |-> None],
   [tag |-> "div", href |-> None, inner |-> Some("/product/2"), closest |-> None],
   [tag |-> "div", href |-> None, inner |-> None, closest |-> Some("/product/2")]}

\* The cards: every contents under a product link, one contents under the
\* links the loop leaves before it reads any.
Cards ==
  {card \in {[tag |-> l.tag, href |-> l.href, inner |-> l.inner,
              closest |-> l.closest, titles |-> c.titles, prices |-> c.prices,
              img |-> c.img] : l \in Links, c \in Contents} :
     LinkEl(card) = None \/ ~Includes(Url(LinkEl(card)), "/product/")
       => card.img = None}

CardLists == UNION {[1 .. n -> Cards] : n \in 0 .. MaxCards}

\* Lines 95-100: the first truthy text of the chain, or what its last lookup
\* gave.
Title(titles) ==
  LET text == [j \in DOMAIN titles |-> TrimmedText(titles[j])]
      truthy == {j \in DOMAIN titles : Truthy(text[j])}
  IN  IF truthy = {} THEN text[Len(titles)] ELSE text[FirstIn(truthy)]

\* Lines 102-105: the first element of the chain that is there.
PriceEl(prices) ==
  LET found == {j \in DOMAIN prices : prices[j] # None}
  IN  IF found = {} THEN None ELSE prices[FirstIn(found)]

\* Lines 85-123: one turn of the loop over the cards, on the seen set and
\* the results so far.
EvaluateCard(card, acc) ==
  LET linkEl == LinkEl(card)
      url == Url(linkEl)
      title == Title(card.titles)
      price == Price(PriceEl(card.prices))
  IN  IF linkEl = None THEN acc
      ELSE IF Skips(url, acc.seen) THEN acc
      ELSE [seen |-> Append(acc.seen, url),
            results |->
              IF Pushes(title, price)
                THEN Append(acc.results,
                            NewRecord(acc.results, title, price, Image(card.img), url))
                ELSE acc.results]

\* Lines 66-67 and 85-125: the loop from empty results, and return results.
RECURSIVE EvaluateFrom(_, _, _)
EvaluateFrom(cards, k, acc) ==
  IF k > Len(cards) THEN acc.results
  ELSE EvaluateFrom(cards, k + 1, EvaluateCard(cards[k], acc))

Evaluate(cards) == EvaluateFrom(cards, 1, [seen |-> <<>>, results |-> <<>>])

\* Script, lines 306-339: one turn of its loop.
ScriptCard(card, acc) ==
  LET linkEl == IF card.tag = "a" THEN Some(card.href)
                ELSE IF card.inner = None THEN None ELSE Some(card.inner)
      url == Or(Or(Some(Resolve(linkEl[1])), linkEl[1]), Some(""))[1]
      text == [j \in DOMAIN card.titles |->
                 IF card.titles[j] = None THEN None ELSE Some(Trim(card.titles[j][1]))]
      truthy == {j \in DOMAIN card.titles : Truthy(text[j])}
      title == IF truthy = {} THEN text[Len(card.titles)] ELSE text[FirstIn(truthy)]
      found == {j \in DOMAIN card.prices : card.prices[j] # None}
      priceEl == IF found = {} THEN None ELSE card.prices[FirstIn(found)]
      inner == Or(IF priceEl = None THEN None
                  ELSE Some(Trim(CollapseSpaces(priceEl[1]))), Some(""))[1]
      price == Or(Some(CurrencyPrefix(BeforeSeparator(inner))), Some(inner))[1]
      img == card.img
      image == Or(Or(IF img = None THEN None ELSE Some(Resolve(img[1].src)),
                     IF img = None THEN None ELSE img[1].dataSrc),
                  Some(""))[1]
  IN  IF linkEl = None THEN acc
      ELSE IF ~Includes(url, "/product/") \/ \E n \in 1 .. Len(acc.seen) : acc.seen[n] = url
        THEN acc
      ELSE [seen |-> Append(acc.seen, url),
            results |->
              IF Truthy(title) \/ price # ""
                THEN Append(acc.results,
                            [title |-> Or(title, Some("N/A"))[1],
                             price |-> Or(Some(price), Some("N/A"))[1],
                             image |-> Or(Some(image), Some(""))[1],
                             url |-> url])
                ELSE acc.results]

\* Script, lines 288-289 and 306-342.
RECURSIVE ScriptFrom(_, _, _)
ScriptFrom(cards, k, acc) ==
  IF k > Len(cards) THEN acc.results
  ELSE ScriptFrom(cards, k + 1, ScriptCard(cards[k], acc))

ScriptEvaluate(cards) == ScriptFrom(cards, 1, [seen |-> <<>>, results |-> <<>>])

InitBoth ==
  /\ clock = 1
  /\ cachedProducts = <<>>
  /\ lastScrapeTime = Null
  /\ cacheDoneAt = Null
  /\ kind = [r \in Req |-> "none"]
  /\ pc = [r \in Req |-> "idle"]
  /\ now = [r \in Req |-> Null]
  /\ browser = [r \in Req |-> "none"]
  /\ i = [r \in Req |-> 0]
  /\ outcome = [r \in Req |-> NoOutcome]
  /\ before = [r \in Req |-> NoSnapshot]
  /\ recording = FALSE
  /\ lastResp = NoResp
  /\ dom = NoDom
  /\ ev = NoEval
  /\ hist = NoHist
  /\ px = NoProxy
  /\ hl = NoHealth
  /\ fe = NoFront
  /\ run \in {[NoRun EXCEPT !.cards = cards] : cards \in CardLists}

\* The server's page.evaluate of line 65 resolves with its results.
ServerEvaluates ==
  /\ run.server = None
  /\ run' = [run EXCEPT !.server = Some(Evaluate(run.cards))]
  /\ UNCHANGED <<serverVars, dom, ev, hist, px, hl, fe>>

\* The script's page.evaluate of line 287 resolves with its results.
ScriptEvaluates ==
  /\ run.script = None
  /\ run' = [run EXCEPT !.script = Some(ScriptEvaluate(run.cards))]
  /\ UNCHANGED <<serverVars, dom, ev, hist, px, hl, fe>>

NextBoth ==
  \/ ServerEvaluates
  \/ ScriptEvaluates

\* Both extractions on every list of up to MaxCards cards of Cards.
SpecBoth == InitBoth /\ [][NextBoth]_vars

\* ------------------------------------------------------------------------
\* GET /api/image-proxy, lines 192-220.

\* req.query.url: absent, empty, or a URL.
QueryUrls == {None, Some(""), Some("https://cdn.sharafdg.com/i.jpg"), Some("/media/i.jpg")}

\* response.status of the upstream answer, and its content-type header.
UpstreamStatuses == {200, 206, 304, 404, 500}
ContentTypes == {None, Some(""), Some("image/png")}

\* response.ok
Ok(status) == 200 <= status /\ status <= 299

\* res.status(status).json({ error }): the headers set so far go out with it,
\* Content-Type being replaced by that of the JSON body.
ErrorResp(status, headers, error) ==
  [status |-> status,
   headers |-> [headers EXCEPT !.contentType = Some("application/json")],
   error |-> Some(error), bytes |-> FALSE]

\* res.send(Buffer.from(arrayBuffer)) of line 216, with the default status.
ImageResp(headers) ==
  [status |-> 200, headers |-> headers, error |-> None, bytes |-> TRUE]

\* The handler has responded: its frame is kept as it ended, for the record.
Respond(resp) == px' = [px EXCEPT !.pc = "idle", !.resp = resp, !.sent = @ + 1]

\* GetImageProxy that fetches whatever req.query.url is.
GetImageProxy_NoGuard(q) ==
  /\ px.pc = "idle"
  /\ q \in QueryUrls
  /\ px' = [NoProxy EXCEPT !.pc = "fetch", !.imageUrl = q, !.fetches = 1]
  /\ UNCHANGED <<serverVars, otherVars, dom, ev, hist>>

\* Lines 192-205: the handler up to its first await.
GetImageProxy(q) ==
  /\ px.pc = "idle"
  /\ q \in QueryUrls
  /\ IF ~Truthy(q)
       THEN px' = [NoProxy EXCEPT
                     !.imageUrl = q,
                     !.resp = ErrorResp(400, NoHeaders, "Missing url parameter"),
                     !.sent = 1]
       ELSE px' = [NoProxy EXCEPT !.pc = "fetch", !.imageUrl = q, !.fetches = 1]
  /\ UNCHANGED <<serverVars, otherVars, dom, ev, hist>>

\* FetchResolves forwarding every upstream answer as an image.
FetchResolves_IgnoresStatus(status, contentType) ==
  /\ px.pc = "fetch"
  /\ status \in UpstreamStatuses
  /\ contentType \in ContentTypes
  /\ px' = [px EXCEPT
               !.pc = "arrayBuffer",
               !.headers = [contentType |-> Or(contentType, Some("image/jpeg")),
                            cacheControl |-> Some("public, max-age=86400")]]
  /\ UNCHANGED <<serverVars, otherVars, dom, ev, hist>>

\* Lines 199-215: fetch resolves with an upstream answer.
FetchResolves(status, contentType) ==
  /\ px.pc = "fetch"
  /\ status \in UpstreamStatuses
  /\ contentType \in ContentTypes
  /\ IF ~Ok(status)
       THEN Respond(ErrorResp(status, px.headers, "Failed to fetch image"))
       ELSE px' = [px EXCEPT
                     !.pc = "arrayBuffer",
                     !.headers = [contentType |-> Or(contentType, Some("image/jpeg")),
                                  cacheControl |-> Some("public, max-age=86400")]]
  /\ UNCHANGED <<serverVars, otherVars, dom, ev, hist>>

\* Lines 199, 217-219: fetch rejects (no connection, not a URL).
FetchRejects ==
  /\ px.pc = "fetch"
  /\ Respond(ErrorResp(500, px.headers, "Image proxy error"))
  /\ UNCHANGED <<serverVars, otherVars, dom, ev, hist>>

\* Lines 215-216: the body is read and sent.
ArrayBufferResolves ==
  /\ px.pc = "arrayBuffer"
  /\ Respond(ImageResp(px.headers))
  /\ UNCHANGED <<serverVars, otherVars, dom, ev, hist>>

\* ArrayBufferRejects with the await outside the try block: the rejection is
\* not caught and the handler ends without a response.
ArrayBufferRejects_Uncaught ==
  /\ px.pc = "arrayBuffer"
  /\ px' = [px EXCEPT !.pc = "idle"]
  /\ UNCHANGED <<serverVars, otherVars, dom, ev, hist>>

\* Lines 215, 217-219: reading the body rejects.
ArrayBufferRejects ==
  /\ px.pc = "arrayBuffer"
  /\ Respond(ErrorResp(500, px.headers, "Image proxy error"))
  /\ UNCHANGED <<serverVars, otherVars, dom, ev, hist>>

\* GetHealth that also marks the cache as just captured.
GetHealth_TouchesCache ==
  /\ hl' = [sent |-> 1, status |-> "ok", timestamp |-> clock]
  /\ lastScrapeTime' = clock
  /\ UNCHANGED <<clock, cachedProducts, cacheDoneAt, kind, pc, now, browser, i,
                 outcome, before, recording, lastResp, dom, ev, hist, px, fe, run>>

\* Lines 223-225: res.json({ status: "ok", timestamp }), no await.
GetHealth ==
  /\ hl' = [sent |-> 1, status |-> "ok", timestamp |-> clock]
  /\ UNCHANGED <<serverVars, dom, ev, hist, px, fe, run>>

\* The image proxy and the health check next to one product request at a
\* time (slot 1, its scrape one await).
NextProxy ==
  \/ Tick
  \/ GetProducts(1)
  \/ GetRefresh(1)
  \/ ScrapeResolves(1)
  \/ ScrapeRejects(1)
  \/ \E q \in QueryUrls : GetImageProxy(q)
  \/ \E status \in UpstreamStatuses, contentType \in ContentTypes :
       FetchResolves(status, contentType)
  \/ FetchRejects
  \/ ArrayBufferResolves
  \/ ArrayBufferRejects
  \/ GetHealth

SpecProxy == Init /\ [][NextProxy]_vars

\* ------------------------------------------------------------------------
\* Vocabulary of the claims.

\* scrapeProducts() calls that have not settled.
InFlight == {r \in Req : pc[r] # "idle"}

\* This step is request r's handler resuming after its scrape settled.
Settles(r) == pc[r] # "idle" /\ pc'[r] = "idle"

\* ... with scrapeProducts() resolved, the handler answering 200.
Succeeds(r) == Settles(r) /\ lastResp'.status = 200

\* ... with scrapeProducts() rejected, the handler answering 500.
Fails(r) == Settles(r) /\ lastResp'.status = 500

\* This step is a GET /api/products answered from the cache.
CacheHit(r) == GetProducts(r) /\ pc'[r] = "idle"

\* This step is a GET /api/products that calls scrapeProducts().
CacheMiss(r) == GetProducts(r) /\ pc'[r] = "launch"

\* A cache entry exists: some scrape has succeeded.
EntryExists == lastScrapeTime # Null

\* C1: at most one scrapeProducts() call is in flight at any time.
C1_AtMostOneScrapeInFlight == Cardinality(InFlight) <= 1

\* C2: when a request's scrape fails, cachedProducts and lastScrapeTime have
\* the values they had when that request called scrapeProducts().
C2_FailureLeavesCacheAsBefore ==
  [][\A r \in Req :
       Fails(r) =>
         /\ cachedProducts' = before[r].products
         /\ lastScrapeTime' = before[r].time]_vars

\* C3 as stated: a GET /api/products arriving while an entry exists, whatever
\* its records, and is younger than CACHE_DURATION is answered cached=true
\* with the stored records and starts no scrape.
C3_AnyFreshEntryIsServed ==
  [][\A r \in Req :
       (GetProducts(r) /\ EntryExists /\ clock - lastScrapeTime < CACHE_DURATION) =>
         /\ lastResp' = ProductsJson(TRUE, cachedProducts)
         /\ pc'[r] = "idle"]_vars

\* C3 as amended: a GET /api/products arriving while the cache holds at least
\* one record of an entry younger than CACHE_DURATION is answered cached=true
\* with the stored records, starts no scrape and leaves the cache as it is.
C3_FreshNonEmptyEntryIsServed ==
  [][\A r \in Req :
       (GetProducts(r) /\ EntryExists /\ Len(cachedProducts) > 0
          /\ clock - lastScrapeTime < CACHE_DURATION) =>
         /\ lastResp' = ProductsJson(TRUE, cachedProducts)
         /\ lastResp'.cached /\ "cached" \in lastResp'.fields
         /\ pc'[r] = "idle"
         /\ UNCHANGED <<cachedProducts, lastScrapeTime>>]_vars

\* C3 witness: a cached answer given CACHE_DURATION - 1 after the entry's
\* timestamp, while another request's scrape is in flight.
C3_Witness ==
  /\ lastResp = ProductsJson(TRUE, cachedProducts)
  /\ Len(cachedProducts) > 0
  /\ clock - lastScrapeTime = CACHE_DURATION - 1
  /\ InFlight # {}

\* The timestamp request r's handler writes on success (lines 155, 176).
Stamp(r) == IF kind[r] = "products" THEN now[r] ELSE clock

\* C4: a GET /api/products arriving when no scrape has succeeded yet, or when
\* the entry is CACHE_DURATION old or older, calls scrapeProducts(); when that
\* call returns a list, records and timestamp are both replaced and the
\* answer is success, cached=false, with exactly that list.
C4_MissScrapesAndStores ==
  [][\A r \in Req :
       /\ (GetProducts(r) /\ (~EntryExists \/ clock - lastScrapeTime >= CACHE_DURATION)) =>
            /\ pc'[r] = "launch" /\ kind'[r] = "products"
            /\ lastResp' = NoResp
       /\ (Succeeds(r) /\ kind[r] = "products") =>
            /\ pc[r] = "close" /\ outcome[r].type = "return"
            /\ cachedProducts' = outcome[r].val
            /\ lastScrapeTime' = now[r] /\ lastScrapeTime' # Null
            /\ lastResp' = ProductsJson(FALSE, outcome[r].val)
            /\ ~lastResp'.cached /\ lastResp'.count = Len(outcome[r].val)]_vars

\* C4 witness: the scrape of a request that arrived exactly CACHE_DURATION
\* after the timestamp of a non-empty entry has returned its list.
C4_Witness ==
  \E r \in Req :
    /\ kind[r] = "products" /\ pc[r] = "close" /\ outcome[r].type = "return"
    /\ Len(cachedProducts) > 0
    /\ now[r] - lastScrapeTime = CACHE_DURATION

\* C5 as stated: GET /api/products/refresh always calls scrapeProducts(), on
\* success replaces records and timestamp, and a GET /api/products that
\* follows it at once is answered cached=true with the refreshed records.
C5_RefreshThenGetIsCached ==
  [][\A r \in Req :
       /\ GetRefresh(r) => pc'[r] = "launch" /\ kind'[r] = "refresh"
       /\ (Succeeds(r) /\ kind[r] = "refresh") =>
            /\ cachedProducts' = lastResp'.products
            /\ lastScrapeTime' = clock
       /\ (GetProducts(r) /\ lastResp.kind = "refresh" /\ lastResp.status = 200
             /\ clock = lastScrapeTime) =>
            lastResp' = ProductsJson(TRUE, lastResp.products)]_vars

\* C5 as amended: the same, the following GET /api/products being answered
\* from the cache when the refreshed list has at least one record (and the
\* GET arrives less than CACHE_DURATION later), and calling scrapeProducts()
\* again when the refreshed list is empty.
C5_RefreshThenGetIsCachedIfNonEmpty ==
  [][\A r \in Req :
       /\ GetRefresh(r) => pc'[r] = "launch" /\ kind'[r] = "refresh"
       /\ (Succeeds(r) /\ kind[r] = "refresh") =>
            /\ cachedProducts' = lastResp'.products
            /\ lastScrapeTime' = clock
       /\ (GetProducts(r) /\ lastResp.kind = "refresh" /\ lastResp.status = 200
             /\ clock - lastScrapeTime < CACHE_DURATION) =>
            IF Len(lastResp.products) > 0
              THEN lastResp' = ProductsJson(TRUE, lastResp.products)
              ELSE pc'[r] = "launch" /\ lastResp' = NoResp]_vars

\* C5 witness: a refresh request has its scrape in flight although the cache
\* holds a valid entry.
C5_Witness ==
  \E r \in Req :
    /\ kind[r] = "refresh" /\ pc[r] = "launch"
    /\ Len(cachedProducts) > 0 /\ EntryExists
    /\ clock - lastScrapeTime < CACHE_DURATION

\* C6: with a non-empty list in the cache, a failing scrape leaves it there,
\* and the GET /api/products that comes next re-serves it with cached=true
\* inside CACHE_DURATION and calls scrapeProducts() outside it; a request
\* that called scrapeProducts() is answered with that call's list or 500.
C6_FailureKeepsRecordsServable ==
  [][\A r \in Req :
       /\ (Fails(r) /\ Len(cachedProducts) > 0) =>
            UNCHANGED <<cachedProducts, lastScrapeTime>>
       /\ (GetProducts(r) /\ lastResp.status = 500 /\ Len(cachedProducts) > 0) =>
            IF clock - lastScrapeTime < CACHE_DURATION
              THEN lastResp' = ProductsJson(TRUE, cachedProducts) /\ pc'[r] = "idle"
              ELSE pc'[r] = "launch" /\ lastResp' = NoResp
       /\ (Settles(r) /\ kind[r] = "products") =>
            \/ lastResp'.status = 500 /\ ~lastResp'.success
            \/ /\ lastResp'.status = 200
               /\ lastResp'.products = cachedProducts']_vars

\* C6 witness: a scrape has just failed, the cache still holds records, and
\* no request is in flight.
C6_Witness ==
  /\ lastResp.status = 500
  /\ Len(cachedProducts) > 0
  /\ InFlight = {}
  /\ clock - lastScrapeTime >= CACHE_DURATION

\* C7: a scrape that throws at any await (launch ... extract, or close) is
\* answered 500 {success: false, error} without records; a success answer
\* of a scraping request carries the whole list page.evaluate returned.
C7_ThrowMeans500 ==
  [][\A r \in Req :
       /\ StageThrows(r) => (pc'[r] = "idle" => Fails(r))
       /\ CloseThrows(r) => Fails(r)
       /\ (Settles(r) /\ (pc[r] # "close" \/ outcome[r].type = "throw")) => Fails(r)
       /\ Fails(r) =>
            /\ lastResp'.fields = {"success", "error"}
            /\ ~lastResp'.success
       /\ Settles(r) => Fails(r) \/ Succeeds(r)
       /\ Succeeds(r) =>
            /\ pc[r] = "close" /\ outcome[r].type = "return"
            /\ lastResp'.products = outcome[r].val
            /\ "products" \in lastResp'.fields]_vars

\* C7 witness: page.evaluate returned a list, browser.close() threw, and
\* the request was answered 500.
C7_Witness ==
  /\ lastResp.status = 500 /\ lastResp.error = "close"
  /\ lastResp.fields = {"success", "error"}
  /\ \A r \in Req : pc[r] = "idle"

\* C8: a call's browser is open only between its launch and its close; once
\* scrapeProducts() has settled, however it ended, its browser is closed.
C8_BrowserClosedWhenSettled ==
  \A r \in Req :
    /\ pc[r] \in {"idle", "launch"} => browser[r] = "none"
    /\ pc[r] \in ScrapeStages \ {"launch"} => browser[r] = "open"

\* C8 witness: a scrape that threw while waiting for the product links has
\* settled and its browser is closed.
C8_Witness ==
  /\ lastResp.status = 500 /\ lastResp.error = "waitForFunction"
  /\ \A r \in Req : pc[r] = "idle" /\ browser[r] = "none"

\* C9: the cache entry is the initial one or the list of one successfully
\* completed scrape with the timestamp written by the same handler; records
\* and timestamp change only together, in that handler's one step.
C9_EntryIsWrittenWhole ==
  [][/\ \A r \in Req :
          Succeeds(r) =>
            /\ cachedProducts' = lastResp'.products
            /\ lastScrapeTime' = Stamp(r)
            /\ lastScrapeTime' # Null
     /\ (~\E r \in Req : Succeeds(r)) => UNCHANGED <<cachedProducts, lastScrapeTime>>
     /\ lastScrapeTime' = Null => cachedProducts' = <<>>]_vars

\* C9 witness: with another scrape still in flight, a GET /api/products
\* that arrived earlier has stored its list under its own, older timestamp.
C9_Witness ==
  /\ lastResp.kind = "products" /\ lastResp.status = 200
  /\ ~lastResp.cached
  /\ lastResp.products = cachedProducts /\ Len(cachedProducts) > 0
  /\ lastScrapeTime < cacheDoneAt
  /\ InFlight # {}

\* C10: a cached=true answer serves records whose scrape completed less
\* than CACHE_DURATION before the request arrived.
C10_CachedAnswerIsYoung ==
  [][\A r \in Req :
       CacheHit(r) =>
         /\ lastResp'.cached
         /\ lastResp'.products = cachedProducts
         /\ cacheDoneAt # Null
         /\ clock - cacheDoneAt < CACHE_DURATION]_vars

\* C10 witness: a cached=true answer given CACHE_DURATION - 1 after the
\* scrape of its records completed.
C10_Witness ==
  /\ lastResp.status = 200 /\ lastResp.cached
  /\ lastResp.products = cachedProducts
  /\ clock - cacheDoneAt = CACHE_DURATION - 1


\* ------------------------------------------------------------------------
\* Claims on the extraction.

\* The records of results whose url is u.
RecordsFor(results, u) == {n \in DOMAIN results : results[n].url = u}

\* This step pushes a record.
Pushed == Len(ev'.results) = Len(ev.results) + 1
LastPushed == ev'.results[Len(ev'.results)]

\* This step is line 114 deciding on the card in hand.
Decides == ev.pc = "image" /\ ev'.pc = "card"

\* How many cards so far met fate f.
Count(f) == Cardinality({n \in DOMAIN hist.fate : hist.fate[n] = f})

\* C11: when two or more cards resolve to the same product URL, the list
\* returned holds exactly one record for that URL, and it is the one built
\* from the first such card, whatever that card yields: records are pushed
\* only for the card that brought a new URL, from that card's title and
\* price, and are never changed or removed afterwards.
C11_OneRecordPerUrlFromFirstCard ==
  [][/\ ev'.pc = "done" =>
          \A u \in hist'.again : Cardinality(RecordsFor(ev'.results, u)) = 1
     /\ \A n \in DOMAIN ev.results :
          n \in DOMAIN ev'.results /\ ev'.results[n] = ev.results[n]
     /\ Len(ev'.results) > Len(ev.results) =>
          /\ Decides /\ Pushed
          /\ ev.url = ev.seen[Len(ev.seen)]
          /\ ev.url \notin hist.again
          /\ LastPushed.url = ev.url
          /\ LastPushed.title = Or(ev.title, Some("N/A"))[1]
          /\ LastPushed.price = Or(Some(ev.price), Some("N/A"))[1]]_vars

\* C12: in the record list, at every point of the extraction and when it is
\* returned, url values are pairwise distinct and each contains "/product/".
C12_UrlsDistinctProductLinks ==
  \A m, n \in DOMAIN ev.results :
    /\ m # n => ev.results[m].url # ev.results[n].url
    /\ Includes(ev.results[n].url, "/product/")

\* Two records were returned for three cards, one of them a duplicate.
C12_Witness ==
  /\ ev.pc = "done"
  /\ Len(ev.results) = 2
  /\ Count("duplicate") = 1

\* The parts of the sentinel rule that speak of one card: with neither a
\* title nor a price no record is pushed; with exactly one of them a record is
\* pushed that has "N/A" for the other.
SentinelRuleOfCard ==
  Decides =>
    /\ ~Truthy(ev.title) /\ ev.price = "" => ev'.results = ev.results
    /\ Truthy(ev.title) /\ ev.price = "" =>
         Pushed /\ LastPushed.title = ev.title[1] /\ LastPushed.price = "N/A"
    /\ ~Truthy(ev.title) /\ ev.price # "" =>
         Pushed /\ LastPushed.title = "N/A" /\ LastPushed.price = ev.price

\* C13 as stated: the sentinel rule of each card, and no record with both
\* title and price equal to "N/A".
C13_SentinelRuleNeverBothNA ==
  [][/\ SentinelRuleOfCard
     /\ \A n \in DOMAIN ev'.results :
          ~(ev'.results[n].title = "N/A" /\ ev'.results[n].price = "N/A")]_vars

\* C13: the sentinel rule of each card; a record whose title and price are
\* both "N/A" is pushed only when the title or the price found on the page
\* is itself the text "N/A".
C13_SentinelRule ==
  [][/\ SentinelRuleOfCard
     /\ Decides /\ Pushed /\ LastPushed.title = "N/A" /\ LastPushed.price = "N/A" =>
          ev.title = Some("N/A") \/ ev.price = "N/A"]_vars

\* One card was dropped for want of both fields, another gave a record with
\* a price and "N/A" for its title.
C13_Witness ==
  /\ Count("fieldless") > 0
  /\ \E n \in DOMAIN ev.results :
       ev.results[n].title = "N/A" /\ ev.results[n].price = "AED 9"

\* C14: the k-th record of the list has id k, at every point of the
\* extraction and when the list is returned.
C14_IdsAreOneToN == \A n \in DOMAIN ev.results : ev.results[n].id = n

\* Three cards: the first and the third gave records, the second was dropped.
C14_Witness ==
  /\ ev.pc = "done"
  /\ Len(hist.fate) = 3
  /\ hist.fate[1] = "pushed" /\ hist.fate[2] # "pushed" /\ hist.fate[3] = "pushed"
  /\ Len(ev.results) = 2

\* The scenario of C15: a page of three product links, on which the first
\* selector matched three cards that each had a product link and a title or
\* a price, two of them the same URL.
C15_Scenario ==
  /\ dom.links = 3
  /\ ev.sel = 1 /\ ev.n = 3 /\ ev.k = 3
  /\ Count("pushed") = 2 /\ Count("duplicate") = 1

\* C15: a page with 3 product links passes the readiness wait, and in the
\* scenario the extraction returns exactly 2 records, with id 1 and id 2, in
\* the order their URLs were first seen.
C15_ThreeCardsOneDuplicate ==
  /\ dom.links = 3 => ev.pc # "timeout"
  /\ C15_Scenario /\ ev.pc = "done" =>
       /\ Len(ev.results) = 2
       /\ \A n \in 1 .. 2 : ev.results[n].id = n /\ ev.results[n].url = ev.seen[n]

C15_Witness ==
  /\ C15_Scenario
  /\ ev.pc = "done"
  /\ hist.fate = <<"pushed", "duplicate", "pushed">>

\* An absolute URL: it names its scheme.
SchemeQualified(url) == StartsWith(url, "https://") \/ StartsWith(url, "http://")

\* C16: the image of every record pushed is "" or a scheme-qualified URL; a
\* value of line 110 that begins with "//" is pushed with "https:" before it.
C16_ImageEmptyOrSchemeQualified ==
  [][\A img \in ImgEls :
       PushCard(img) /\ Pushed =>
         /\ StartsWith(RawImage(img), "//") =>
              LastPushed.image = "https:" \o RawImage(img)
         /\ LastPushed.image = "" \/ SchemeQualified(LastPushed.image)
         /\ ~StartsWith(LastPushed.image, "//")]_vars


\* ------------------------------------------------------------------------
\* Claims on the image proxy.

\* This step is a GET /api/image-proxy arriving.
ProxyArrives == px.pc = "idle" /\ px' # px

\* This step sends the image proxy's response.
ProxyResponds == px'.pc = "idle" /\ px' # px

\* C17: a GET /api/image-proxy whose url parameter is absent or empty is
\* answered 400 in the step it arrives, and no fetch is made for it.
C17_MissingUrlIs400NoFetch ==
  [][ProxyArrives /\ ~Truthy(px'.imageUrl) =>
       /\ px'.pc = "idle"
       /\ px'.resp.status = 400
       /\ px'.fetches = 0]_vars

\* A request with url="" has been answered 400 without a fetch.
C17_Witness ==
  /\ px.pc = "idle"
  /\ px.imageUrl = Some("")
  /\ px.resp.status = 400
  /\ px.fetches = 0

\* The three outcomes of a request that has a url.
UpstreamStatusForwarded ==
  /\ px'.resp.error = Some("Failed to fetch image")
  /\ ~px'.resp.bytes
ProxyError ==
  /\ px'.resp.status = 500
  /\ px'.resp.error = Some("Image proxy error")
  /\ ~px'.resp.bytes
ImageSent ==
  /\ px'.resp.status = 200
  /\ px'.resp.bytes
  /\ px'.resp.error = None
  /\ px'.resp.headers.cacheControl = Some("public, max-age=86400")
  /\ px'.resp.headers.contentType # None
  /\ px'.resp.headers.contentType # Some("")

\* C18: for a request with a url, an upstream answer with non-success status
\* s is answered with status s; a fetch or body read that throws is answered
\* 500; a body read after a success status is answered with the upstream
\* content type (image/jpeg when there is none) and Cache-Control
\* "public, max-age=86400"; every response is exactly one of the three.
C18_ThreeOutcomes ==
  [][/\ \A status \in UpstreamStatuses, contentType \in ContentTypes :
          FetchResolves(status, contentType) =>
            IF Ok(status)
              THEN /\ px'.pc = "arrayBuffer"
                   /\ px'.headers.contentType =
                        (IF contentType \in {None, Some("")}
                           THEN Some("image/jpeg") ELSE contentType)
              ELSE UpstreamStatusForwarded /\ px'.resp.status = status
     /\ FetchRejects \/ ArrayBufferRejects => ProxyError
     /\ ArrayBufferResolves =>
          ImageSent /\ px'.resp.headers.contentType = px.headers.contentType
     /\ ProxyResponds /\ Truthy(px'.imageUrl) =>
          /\ UpstreamStatusForwarded \/ ProxyError \/ ImageSent
          /\ ~(UpstreamStatusForwarded /\ ProxyError)
          /\ ~(UpstreamStatusForwarded /\ ImageSent)
          /\ ~(ProxyError /\ ImageSent)
          /\ px'.fetches = 1]_vars

\* An image went out with the default content type.
C18_Witness ==
  /\ px.pc = "idle"
  /\ px.resp.bytes
  /\ px.resp.status = 200
  /\ px.resp.headers.contentType = Some("image/jpeg")


\* ------------------------------------------------------------------------
\* Claims on retries and on the shape of the success responses.

\* Position of an await of scrapeProducts() in program order; the close of
\* the finally clause comes last.
Rank(stage) ==
  IF stage = "close" THEN Len(TryStages) + 1
  ELSE CHOOSE n \in 1 .. Len(TryStages) : TryStages[n] = stage

\* C19: scrapeProducts() is called only in the step a request arrives, so at
\* most once per request; inside a call the awaits are only ever left for a
\* later one, so launch, navigation and readiness wait happen at most once;
\* a failure ends the request, which is idle until a new request arrives.
C19_NoAutomaticRetry ==
  [][\A r \in Req :
       /\ pc'[r] = "launch" /\ pc[r] # "launch" =>
            pc[r] = "idle" /\ (GetProducts(r) \/ GetRefresh(r))
       /\ pc[r] # "idle" /\ pc'[r] # "idle" /\ pc'[r] # pc[r] =>
            Rank(pc'[r]) > Rank(pc[r])
       /\ Fails(r) => pc'[r] = "idle" /\ browser'[r] = "none"]_vars

\* The readiness wait failed and the request was answered 500.
C19_Witness ==
  /\ pc[1] = "idle"
  /\ lastResp.status = 500
  /\ lastResp.error = "waitForFunction"

\* C20: a success response of GET /api/products has a cached key, true when
\* the request was answered on arrival without a scrape and false when it was
\* answered after its scrape resolved; a success response of GET
\* /api/products/refresh has no cached key and is sent only after the scrape
\* the request started resolved; in all of them count is the length of
\* products.
C20_CachedFlagAndCount ==
  [][\A r \in Req :
       /\ CacheHit(r) =>
            /\ lastResp'.kind = "products" /\ lastResp'.status = 200
            /\ "cached" \in lastResp'.fields /\ lastResp'.cached
            /\ lastResp'.count = Len(lastResp'.products)
       /\ Succeeds(r) /\ kind[r] = "products" =>
            /\ lastResp'.kind = "products"
            /\ "cached" \in lastResp'.fields /\ ~lastResp'.cached
            /\ lastResp'.count = Len(lastResp'.products)
       /\ Succeeds(r) /\ kind[r] = "refresh" =>
            /\ lastResp'.kind = "refresh"
            /\ "cached" \notin lastResp'.fields
            /\ lastResp'.products = cachedProducts'
            /\ lastResp'.count = Len(lastResp'.products)
       /\ GetRefresh(r) => pc'[r] = "launch" /\ lastResp' = NoResp
       /\ CacheMiss(r) => lastResp' = NoResp]_vars

\* A refresh has been answered with two records.
C20_Witness ==
  /\ lastResp.kind = "refresh"
  /\ lastResp.status = 200
  /\ lastResp.count = 2

\* ------------------------------------------------------------------------
\* The phases of one scrape attempt.

Enters(r, stage) == pc[r] # stage /\ pc'[r] = stage

\* C21: extraction starts only out of the scroll loop after its 6 cycles,
\* the loop starts only from a readiness wait whose predicate held on the
\* loaded page, the wait starts only after navigation succeeded, and the
\* cycles count up one at a time; a failed navigation or readiness wait
\* goes to teardown with a thrown completion, never to extraction; records
\* are returned only out of extraction.
C21_PhasesInOrder ==
  [][\A r \in Req :
       /\ Enters(r, "waitForFunction") => pc[r] = "goto"
       /\ Enters(r, "scroll") => pc[r] = "waitForFunction" /\ Ready /\ i[r] = 0
       /\ (pc[r] = "scroll" /\ pc'[r] = "scroll" /\ i'[r] # i[r]) => i'[r] = i[r] + 1
       /\ Enters(r, "extract") => pc[r] = "scroll" /\ i[r] = SCROLL_CYCLES
       /\ (pc[r] \in {"goto", "waitForFunction"} /\ ~Enters(r, "waitForFunction")
             /\ ~Enters(r, "scroll") /\ pc'[r] # pc[r])
            => pc'[r] = "close" /\ outcome'[r] = Thrown(pc[r])
       /\ (outcome'[r].type = "return" /\ outcome[r].type # "return")
            => pc[r] = "extract"
       /\ Succeeds(r) => pc[r] = "close" /\ outcome[r].type = "return"]_vars

\* Extraction has started on a page that was ready.
C21_Witness == pc[1] = "extract" /\ Ready /\ browser[1] = "open"

\* C22: a scrape that has started settles: its handler has answered 200 or
\* 500 and its browser is closed, with no step taken from outside the
\* scrape itself.
C22_ScrapeSettles ==
  \A r \in Req :
    (pc[r] # "idle") ~> (pc[r] = "idle" /\ browser[r] = "none"
                          /\ lastResp.status \in {200, 500})

\* A scrape whose readiness wait timed out has settled: 500, browser closed.
C22_Witness ==
  /\ pc[1] = "idle"
  /\ browser[1] = "none"
  /\ lastResp = ErrorJson(lastResp.kind, "waitForFunction")

\* ------------------------------------------------------------------------
\* Card discovery and the fields of a card.

\* C23: the selectors are tried in the fixed order of the list; one that
\* matches nothing passes to the next, the first one that matches anything
\* supplies the cards and ends the search; from then on the chosen
\* strategy and its cards stay as they are, whatever happens to the cards,
\* and no more cards are visited than that strategy matched.
C23_FirstMatchingStrategyOnly ==
  [][/\ Selectors = <<"[data-testid=\"product-card\"]", "[class*=\"product-card\"]",
                      "[class*=\"ProductCard\"]", "a[href*=\"/product/\"]">>
     /\ ev.pc = "selectors" =>
          \/ /\ ev'.pc = "selectors"
             /\ ev.j < Len(Selectors)
             /\ ev'.j = ev.j + 1
             /\ ev'.sel = 0 /\ ev'.n = 0
          \/ /\ ev'.pc = "card"
             /\ ev'.n > 0
             /\ ev'.sel = ev.j
          \/ /\ ev'.pc = "card"
             /\ ev.j = Len(Selectors)
             /\ ev'.n = 0 /\ ev'.sel = 0
     /\ ev.pc \notin {"waitForFunction", "selectors"} =>
          /\ ev'.sel = ev.sel
          /\ ev'.n = ev.n
          /\ ev'.k <= ev.n
          /\ Len(ev'.results) <= ev'.k]_vars

\* An earlier strategy matched, all its cards were dropped, and the list
\* returned is empty although the page holds product links.
C23_Witness ==
  /\ ev.pc = "done"
  /\ ev.sel \in 1 .. 3
  /\ ev.n > 0
  /\ ev.k = ev.n
  /\ ev.results = <<>>
  /\ dom.links >= READY_LINKS

\* C24: a card that is not a link, has no product link inside it and is
\* wrapped by a product link resolves to the wrapping link: unless that URL
\* was already seen, the loop goes on to read its fields for that URL.
C24_WrappingLinkResolved ==
  [][\A card \in BoxCards :
       (card.inner = None /\ card.closest # None /\ NextCard(card))
         => \/ Skips(Url(Some(card.closest)), ev.seen)
            \/ ev'.pc = "title" /\ ev'.url = Url(Some(card.closest))]_vars

\* The text of el is empty once whitespace is collapsed and trimmed.
Blank(el) == el # None /\ Trim(CollapseSpaces(el[1])) = ""

\* C25: a price lookup that finds an element with empty or whitespace-only
\* text does not end the chain while lookups remain: the next one is
\* consulted, so that an element with text found later supplies the price.
C25_PriceSkipsBlankElement ==
  [][\A el \in PriceEls :
       (PriceLookup(el) /\ Blank(el) /\ ev.j < Len(PriceLookups))
         => ev'.pc = "price" /\ ev'.j = ev.j + 1]_vars

C27_DroppedOnlyForTwoReasons ==
  \A n \in DOMAIN hist.fate : hist.fate[n] \in {"pushed", "duplicate", "fieldless"}

\* The href attribute the link of a card is resolved from, None without one.
HrefOf(card) ==
  IF card.tag = "a" THEN Some(card.href)
  ELSE IF card.inner # None THEN Some(card.inner)
  ELSE None

\* C27: every card visited meets exactly one of four fates, decided in this
\* order: dropped when it is not a link and holds no product link, or when
\* the URL of its link does not contain /product/; dropped when that URL
\* was already seen; dropped when it yields neither title nor price;
\* otherwise pushed as a record for its URL.
C27_DroppedForFourReasons ==
  [][/\ \A card \in LinkCards \cup BoxCards :
          NextCard(card) =>
            IF HrefOf(card) = None \/ ~Includes(Url(HrefOf(card)), "/product/")
              THEN /\ hist'.fate = Append(hist.fate, "unlinked")
                   /\ ev'.pc = "card" /\ ev'.results = ev.results
              ELSE IF \E n \in DOMAIN ev.seen : ev.seen[n] = Url(HrefOf(card))
                THEN /\ hist'.fate = Append(hist.fate, "duplicate")
                     /\ ev'.pc = "card" /\ ev'.results = ev.results
                ELSE /\ hist'.fate = hist.fate
                     /\ ev'.pc = "title" /\ ev'.url = Url(HrefOf(card))
     /\ Decides =>
          IF Truthy(ev.title) \/ ev.price # ""
            THEN /\ hist'.fate = Append(hist.fate, "pushed")
                 /\ Pushed /\ LastPushed.url = ev.url
            ELSE /\ hist'.fate = Append(hist.fate, "fieldless")
                 /\ ev'.results = ev.results
     /\ (ev.pc \in {"title", "price"} \/ ev'.pc = "done") =>
          hist'.fate = hist.fate /\ ev'.results = ev.results
     /\ ev'.pc = "done" => Len(hist.fate) = ev.n]_vars

\* A batch of three cards: one without a product link, one without title
\* and price, one pushed.
C27_Witness ==
  /\ ev.pc = "done"
  /\ Count("unlinked") = 1
  /\ Count("fieldless") = 1
  /\ Count("pushed") = 1

\* ------------------------------------------------------------------------
\* The cache timestamp under both endpoints.

\* C28: whichever endpoint stores a scrape's records, the timestamp stored
\* with them is the time of that step, the completion of the scrape.
C28_StampIsCompletionTime ==
  [][\A r \in Req : Succeeds(r) => lastScrapeTime' = clock']_vars

\* C29: a scrape that completes after one requested later than itself has
\* stored its records does not store its own over them.
C29_LaterRequestWins ==
  [][\A r \in Req : Succeeds(r) => ~before[r].overtaken]_vars

\* C30: no step replaces the cache timestamp with an earlier one.
C30_TimestampNeverDecreases ==
  [][lastScrapeTime' >= lastScrapeTime]_vars

\* ------------------------------------------------------------------------
\* Responses and the frame of the handlers.

\* C31: a handler that answers 200 after its scrape answers with the list
\* its own call of scrapeProducts() resolved with, and with its length,
\* whatever other requests are in flight.
C31_ResponseCarriesOwnScrape ==
  [][\A r \in Req :
       Succeeds(r) =>
         \E products \in RecordLists :
           /\ Settle(r, Returned(products))
           /\ lastResp'.products = products
           /\ lastResp'.count = Len(products)
           /\ lastResp'.kind = kind[r]]_vars

\* A request has been answered with records while another scrape is still
\* running.
C31_Witness ==
  /\ lastResp.status = 200
  /\ lastResp.fields # {}
  /\ Len(lastResp.products) > 0
  /\ \E r \in Req : pc[r] # "idle"
  /\ \E r \in Req : pc[r] = "idle"

\* C32: no step of GET /api/image-proxy (arrival, the fetch settling, the
\* body read settling), no GET /api/health and no cache hit of GET
\* /api/products changes cachedProducts or lastScrapeTime, or starts a
\* scrape.
C32_RelayHealthAndHitsLeaveCache ==
  [][(px' # px \/ hl' # hl \/ CacheHit(1)) =>
       /\ cachedProducts' = cachedProducts
       /\ lastScrapeTime' = lastScrapeTime
       /\ pc' = pc
       /\ browser' = browser]_vars

\* With records in the cache, the relay has sent an image and the health
\* check has answered.
C32_Witness ==
  /\ Len(cachedProducts) > 0
  /\ lastScrapeTime # Null
  /\ px.resp.bytes
  /\ hl.sent = 1

\* C33: every request gets one response, no more and no fewer.  A product
\* request sends nothing when it suspends on its scrape and nothing while
\* the scrape is pending, and answers 200 or 500 in the step that ends it;
\* a cache hit answers in its own step.  An image-proxy request has sent
\* nothing while it is suspended and exactly one response once its handler
\* has ended, on each of its paths; a health request has sent exactly one.
C33_ExactlyOneResponse ==
  [][/\ (pc[1] = "idle" /\ pc'[1] # "idle") => lastResp' = NoResp
     /\ (pc[1] # "idle" /\ pc'[1] # "idle") => lastResp' = NoResp
     /\ Settles(1) => lastResp # lastResp' /\ lastResp'.status \in {200, 500}
     /\ CacheHit(1) => lastResp' = ProductsJson(TRUE, cachedProducts)
     /\ px'.sent = IF px'.pc = "idle" /\ px' # NoProxy THEN 1 ELSE 0
     /\ px'.pc = "idle" /\ px' # NoProxy =>
          \/ px'.resp.bytes /\ px'.resp.status = 200
          \/ px'.resp.error # None /\ px'.resp.status \in {400, 404, 500, 304}
     /\ hl' # hl => hl'.sent = 1]_vars

\* All four endpoints have answered: a product request with 500, a relay
\* request with the upstream's error status, the health check.
C33_Witness ==
  /\ pc[1] = "idle"
  /\ lastResp.status = 500
  /\ px.pc = "idle"
  /\ px.resp.status = 404
  /\ px.sent = 1
  /\ hl.sent = 1

\* ------------------------------------------------------------------------
\* The dashboards: Home (src/frontend/app/page.tsx) and DemoDashboard
\* (src/frontend/app/demo/page.tsx).  One instance of one of the two pages;
\* the server is what answers its fetches, any answer at any time.  Amounts
\* of money are integers, in hundredths of a dirham.  fe.products is
\* products of Home and scrapedProducts of DemoDashboard.

MaxProducts == 2     \* products a response carries
MaxFetch == 2        \* fetches of one dashboard the model lets be in flight
MaxAlerts == 2       \* alerts kept before the user stops refreshing

\* The products the page being scraped can show: title and price as the
\* server's records carry them.
Catalogue ==
  {[title |-> "Oven", price |-> "AED 9"],
   [title |-> "Oven", price |-> "AED 1,200.50"],
   [title |-> "N/A", price |-> "N/A"]}

\* data.products of a response: different products, ids 1 .. n (line 115
\* of the server).
ProductLists ==
  UNION {{[n \in 1 .. len |-> [id |-> n, title |-> f[n].title, price |-> f[n].price]] :
            f \in {g \in [1 .. len -> Catalogue] :
                     \A a, b \in 1 .. len : a # b => g[a] # g[b]}} :
         len \in 0 .. MaxProducts}

\* The JSON a fetch resolves with: a success body of either endpoint (the
\* refresh body has no cached key) or the error body; "reject" is a fetch
\* or a response.json() that rejected.
SuccessBodies ==
  {[success |-> TRUE, products |-> pl, cached |-> c, error |-> None] :
     pl \in ProductLists, c \in BOOLEAN}
ErrorBodies ==
  {[success |-> FALSE, products |-> <<>>, cached |-> FALSE, error |-> e] :
     e \in {None, Some("goto")}}

Digits == <<"0", "1", "2", "3", "4", "5", "6", "7", "8", "9">>
IsDigit(c) == \E d \in 1 .. 10 : Digits[d] = c
DigitOf(c) == (CHOOSE d \in 1 .. 10 : Digits[d] = c) - 1

\* s.replace(/[^0-9.,]/g, "").replace(/,/g, "") of demo line 53
RECURSIVE Cleaned(_)
Cleaned(s) ==
  IF Len(s) = 0 THEN ""
  ELSE IF IsDigit(Char(s, 1)) \/ Char(s, 1) = "." THEN Char(s, 1) \o Cleaned(Tail(s))
  ELSE Cleaned(Tail(s))

\* The digits s begins with.
RECURSIVE DigitRun(_)
DigitRun(s) ==
  IF Len(s) > 0 /\ IsDigit(Char(s, 1)) THEN Char(s, 1) \o DigitRun(Tail(s)) ELSE ""

RECURSIVE IntVal(_)
IntVal(s) ==
  IF Len(s) = 0 THEN 0 ELSE 10 * IntVal(SubSeq(s, 1, Len(s) - 1)) + DigitOf(Char(s, Len(s)))

\* parseFloat(s) for s of digits and dots, in hundredths (the model's
\* prices have at most two decimals); None is NaN.
ParseFloat(s) ==
  LET whole == DigitRun(s)
      rest == SubSeq(s, Len(whole) + 1, Len(s))
      frac == IF Len(rest) > 0 /\ Char(rest, 1) = "." THEN DigitRun(Tail(rest)) ELSE ""
      cents == IF Len(frac) = 0 THEN 0
               ELSE IF Len(frac) = 1 THEN 10 * IntVal(frac)
               ELSE IntVal(SubSeq(frac, 1, 2))
  IN  IF Len(whole) = 0 /\ Len(frac) = 0 THEN None
      ELSE Some(100 * IntVal(whole) + cents)

\* demo lines 52-56
ParsePriceToNumber(priceStr) ==
  LET num == ParseFloat(Cleaned(priceStr))
  IN  IF num = None THEN 0 ELSE num[1]

\* Math.round(a / b) for b > 0
RoundDiv(a, b) == (a \div b) + (IF 2 * (a % b) >= b THEN 1 ELSE 0)

\* 0.9 + Math.random() * 0.2 of demo line 101, in percent.
Factors == {90, 105}

\* existingTracked?.find((t) => t.scraped.title === scraped.title), demo
\* lines 94-96: the first entry with that title, None for undefined.
Find(existingTracked, title) ==
  LET hits == {n \in DOMAIN existingTracked : existingTracked[n].scraped.title = title}
  IN  IF hits = {} THEN None
      ELSE Some(existingTracked[CHOOSE n \in hits : \A m \in hits : n <= m])

\* priceDiffPct of demo lines 108-111 and 228-231, in hundredths of a percent.
PriceDiffPct(priceDiff, ourPrice) ==
  IF ourPrice > 0 THEN RoundDiv(priceDiff * 10000, ourPrice) ELSE 0

\* buildTrackedProducts, demo lines 89-128; rand[n] is the random factor
\* drawn for the n-th product.
BuildTrackedProducts(products, existingTracked, rand) ==
  [n \in DOMAIN products |->
     LET scraped == products[n]
         scrapedPriceNum == ParsePriceToNumber(scraped.price)
         existing == Find(existingTracked, scraped.title)
         ourPrice == IF existing # None THEN existing[1].ourPrice
                     ELSE RoundDiv(scrapedPriceNum * rand[n], 100)
         priceDiff == ourPrice - scrapedPriceNum
     IN  [scraped |-> scraped,
          scrapedPriceNum |-> scrapedPriceNum,
          ourPrice |-> ourPrice,
          previousScrapedPrice |-> IF existing # None THEN existing[1].scrapedPriceNum
                                   ELSE scrapedPriceNum,
          priceDiff |-> priceDiff,
          priceDiffPct |-> PriceDiffPct(priceDiff, ourPrice),
          isRivalCheaper |-> scrapedPriceNum < ourPrice,
          justDropped |-> IF existing # None
                            THEN scrapedPriceNum < existing[1].scrapedPriceNum
                            ELSE FALSE]]

\* The alert of demo lines 158-177 for tracked product t.
Alert(t) ==
  [id |-> <<"alert", clock, t.scraped.id>>,
   productName |-> t.scraped.title,
   source |-> "Sharaf DG",
   oldPrice |-> t.previousScrapedPrice,
   newPrice |-> t.scrapedPriceNum,
   dropPercentage |-> RoundDiv((t.previousScrapedPrice - t.scrapedPriceNum) * 10000,
                               t.previousScrapedPrice),
   timestamp |-> clock,
   read |-> FALSE,
   type |-> IF t.scrapedPriceNum < t.ourPrice THEN "price_undercut" ELSE "price_drop"]

\* newAlerts of demo lines 155-179.
RECURSIVE NewAlerts(_)
NewAlerts(tracked) ==
  IF tracked = <<>> THEN <<>>
  ELSE (IF Head(tracked).justDropped THEN <<Alert(Head(tracked))>> ELSE <<>>)
       \o NewAlerts(Tail(tracked))

\* The first render of a page (useState initial values, page.tsx lines
\* 23-28, demo lines 64-77); the effect of lines 60-62 / 205-208 has not
\* run yet.
FirstRender(page) == [NoFront EXCEPT !.page = page, !.loading = TRUE]

\* What the page renders: page.tsx lines 73, 90; demo lines 283, 299.
Screen ==
  IF fe.loading THEN "loading"
  ELSE IF Truthy(fe.error) THEN "error"
  ELSE "main"

InitFront ==
  /\ clock = 1
  /\ cachedProducts = <<>>
  /\ lastScrapeTime = Null
  /\ cacheDoneAt = Null
  /\ kind = [r \in Req |-> "none"]
  /\ pc = [r \in Req |-> "idle"]
  /\ now = [r \in Req |-> Null]
  /\ browser = [r \in Req |-> "none"]
  /\ i = [r \in Req |-> 0]
  /\ outcome = [r \in Req |-> NoOutcome]
  /\ before = [r \in Req |-> NoSnapshot]
  /\ recording = FALSE
  /\ lastResp = NoResp
  /\ dom = NoDom
  /\ ev = NoEval
  /\ hist = NoHist
  /\ px = NoProxy
  /\ hl = NoHealth
  /\ fe \in {FirstRender("home"), FirstRender("demo")}
  /\ run = NoRun

\* fetchProducts(forceRefresh) up to its first await: page.tsx lines 32-42,
\* demo lines 131-141.  The callback is the one of the render on screen, so
\* the trackedProducts it closes over (demo line 201) are those of now.
FetchProducts(forceRefresh) ==
  /\ Len(fe.pending) < MaxFetch
  /\ fe' = [fe EXCEPT
              !.refreshing = IF forceRefresh THEN TRUE ELSE @,
              !.loading = IF forceRefresh THEN @ ELSE TRUE,
              !.error = None,
              !.pending = Append(@, [forceRefresh |-> forceRefresh,
                                     trackedProducts |-> fe.trackedProducts])]
  /\ UNCHANGED <<serverVars, dom, ev, hist, px, hl, run>>

\* The effect after the first render: page.tsx lines 60-62, demo 205-208.
Mount ==
  /\ fe.page # "none"
  /\ ~fe.effect
  /\ Len(fe.pending) < MaxFetch
  /\ fe' = [fe EXCEPT !.effect = TRUE, !.loading = TRUE, !.error = None,
                      !.pending = Append(@, [forceRefresh |-> FALSE,
                                             trackedProducts |-> fe.trackedProducts])]
  /\ UNCHANGED <<serverVars, dom, ev, hist, px, hl, run>>

\* The button of the error screen: page.tsx line 106, demo line 320.
ClickRetry ==
  /\ fe.effect
  /\ Screen = "error"
  /\ FetchProducts(FALSE)

\* ClickRefresh on a button that is never disabled.
ClickRefresh_Enabled ==
  /\ fe.effect
  /\ Screen = "main"
  /\ Len(fe.alerts) + MaxProducts <= MaxAlerts
  /\ FetchProducts(TRUE)

\* The refresh button of the main view, disabled while refreshing:
\* page.tsx lines 166-168, demo lines 376-379.
ClickRefresh ==
  /\ fe.effect
  /\ Screen = "main"
  /\ ~fe.refreshing
  /\ Len(fe.alerts) + MaxProducts <= MaxAlerts
  /\ FetchProducts(TRUE)

\* finally { setLoading(false); setRefreshing(false) } and the end of call k.
Settled(state, k) ==
  [state EXCEPT !.loading = FALSE, !.refreshing = FALSE,
                !.pending = SubSeq(@, 1, k - 1) \o SubSeq(@, k + 1, Len(@))]

\* Home, page.tsx lines 43-57: the fetch of call k resolved with data.
HomeThen(k, data) ==
  IF data.success
    THEN Settled([fe EXCEPT !.products = data.products,
                            !.isCached = data.cached,
                            !.lastUpdated = clock], k)
    ELSE Settled([fe EXCEPT !.error = Or(data.error, Some("Failed to fetch products"))], k)

\* DemoDashboard, demo lines 142-199: the fetch of call k resolved with
\* data; rand are the random factors buildTrackedProducts draws.
DemoThen(k, data, rand) ==
  IF data.success /\ Len(data.products) > 0
    THEN LET call == fe.pending[k]
             tracked == BuildTrackedProducts(data.products, call.trackedProducts, rand)
             newAlerts == NewAlerts(tracked)
         IN  Settled([fe EXCEPT
                        !.products = data.products,
                        !.trackedProducts = tracked,
                        !.lastUpdated = clock,
                        !.alerts = IF call.forceRefresh THEN newAlerts \o @ ELSE @,
                        !.toastMessage =
                           IF ~call.forceRefresh THEN @
                           ELSE IF Len(newAlerts) > 0
                             THEN Some(<<"Refreshed!", Len(newAlerts)>>)
                             ELSE Some(<<"Refreshed", Len(tracked)>>)], k)
    ELSE Settled([fe EXCEPT
                    !.error = Or(data.error, Some("No products returned from scraper."))], k)

\* await fetch / await response.json() of call k resolves with data.  (No
\* random factor is drawn for a product that has an existing entry: rand
\* is fixed there.)
FetchResolvesWith(k, data) ==
  /\ k \in DOMAIN fe.pending
  /\ data \in SuccessBodies \cup ErrorBodies
  /\ (fe.pending[k].forceRefresh \/ fe.page = "demo") => ~data.cached
  /\ IF fe.page = "home"
       THEN fe' = HomeThen(k, data)
       ELSE \E rand \in [1 .. Len(data.products) -> Factors] :
              /\ \A n \in DOMAIN rand :
                   Find(fe.pending[k].trackedProducts, data.products[n].title) # None
                     => rand[n] = 90
              /\ fe' = DemoThen(k, data, rand)
  /\ UNCHANGED <<serverVars, dom, ev, hist, px, hl, run>>

\* await fetch / await response.json() of call k rejects: the catch of
\* page.tsx lines 52-53, demo lines 192-195.
FetchFails(k) ==
  /\ k \in DOMAIN fe.pending
  /\ fe' = Settled([fe EXCEPT !.error = Some("Unable to connect")], k)
  /\ UNCHANGED <<serverVars, dom, ev, hist, px, hl, run>>

NewPrices == {1000}

\* UpdateOurPrice that stores the price and leaves the derived fields.
UpdateOurPrice_PriceOnly(productId, newPrice) ==
  /\ fe.page = "demo"
  /\ Screen = "main"
  /\ \E n \in DOMAIN fe.trackedProducts : fe.trackedProducts[n].scraped.id = productId
  /\ newPrice > 0
  /\ fe' = [fe EXCEPT
              !.trackedProducts =
                 [n \in DOMAIN @ |->
                    IF @[n].scraped.id = productId
                      THEN [@[n] EXCEPT !.ourPrice = newPrice]
                      ELSE @[n]]]
  /\ UNCHANGED <<serverVars, dom, ev, hist, px, hl, run>>

\* updateOurPrice(productId, newPrice), demo lines 223-245, called from the
\* price editor of a tracked product of the main view (lines 886-906) with
\* a number above 0.
UpdateOurPrice(productId, newPrice) ==
  /\ fe.page = "demo"
  /\ Screen = "main"
  /\ \E n \in DOMAIN fe.trackedProducts : fe.trackedProducts[n].scraped.id = productId
  /\ newPrice > 0
  /\ fe' = [fe EXCEPT
              !.trackedProducts =
                 [n \in DOMAIN @ |->
                    LET t == @[n]
                        priceDiff == newPrice - t.scrapedPriceNum
                    IN  IF t.scraped.id = productId
                          THEN [t EXCEPT !.ourPrice = newPrice,
                                         !.priceDiff = priceDiff,
                                         !.priceDiffPct = PriceDiffPct(priceDiff, newPrice),
                                         !.isRivalCheaper = t.scrapedPriceNum < newPrice]
                          ELSE t]]
  /\ UNCHANGED <<serverVars, dom, ev, hist, px, hl, run>>

\* A timer of showToast (demo lines 83-86) fires while a toast is shown: 4 s
\* after that toast, or earlier when it is the timer of a previous one.
ToastTimeout ==
  /\ fe.toastMessage # None
  /\ fe' = [fe EXCEPT !.toastMessage = None]
  /\ UNCHANGED <<serverVars, dom, ev, hist, px, hl, run>>

\* Summary stats, demo lines 262-266.
TotalProducts == Len(fe.trackedProducts)
RivalCheaperCount ==
  Cardinality({n \in DOMAIN fe.trackedProducts : fe.trackedProducts[n].isRivalCheaper})
OurCheaperCount == TotalProducts - RivalCheaperCount

NextFront ==
  \/ Mount
  \/ ClickRetry
  \/ ClickRefresh
  \/ \E k \in 1 .. MaxFetch, data \in SuccessBodies \cup ErrorBodies :
       FetchResolvesWith(k, data)
  \/ \E k \in 1 .. MaxFetch : FetchFails(k)
  \/ \E productId \in 1 .. MaxProducts, newPrice \in NewPrices :
       UpdateOurPrice(productId, newPrice)
  \/ ToastTimeout

\* One dashboard instance and its user, the server answering its fetches.
SpecFront == InitFront /\ [][NextFront]_vars

\* ------------------------------------------------------------------------
\* Claims on the dashboards.

\* C34: a dashboard has at most one fetch in flight; while one is pending
\* the page shows the loading screen, or the main view with the refresh
\* button disabled; the step in which a fetch settles, however it settles,
\* leaves loading and refreshing both false.
C34_OneFetchInFlight ==
  [][/\ Len(fe'.pending) <= 1
     /\ Len(fe'.pending) = 1 =>
          \/ fe'.loading
          \/ fe'.refreshing /\ ~Truthy(fe'.error)
     /\ Len(fe'.pending) < Len(fe.pending) => ~fe'.loading /\ ~fe'.refreshing]_vars

\* A forced refresh is pending behind the main view of the demo dashboard.
C34_Witness ==
  /\ fe.page = "demo"
  /\ Len(fe.pending) = 1
  /\ fe.pending[1].forceRefresh
  /\ fe.refreshing
  /\ Screen = "main"

\* This step is a fetch of the demo dashboard settling.
DemoSettles == fe.page = "demo" /\ Len(fe'.pending) < Len(fe.pending)

\* The entries of tracked with that title.
WithTitle(tracked, title) == {m \in DOMAIN tracked : tracked[m].scraped.title = title}

\* C35: a fetch of the demo dashboard that ends with the error state leaves
\* scrapedProducts, trackedProducts and alerts as they were; one that ends
\* without it replaces trackedProducts by one entry per product received,
\* each with the ourPrice of the tracked product of the same title when
\* there was one, and puts new alerts before the old ones only when it was
\* a forced refresh, one for each product whose price is below the scraped
\* price of the tracked product of the same title and for no other.
C35_DemoFetchFrame ==
  [][DemoSettles =>
       IF fe'.error # None
         THEN /\ fe'.products = fe.products
              /\ fe'.trackedProducts = fe.trackedProducts
              /\ fe'.alerts = fe.alerts
         ELSE /\ Len(fe'.trackedProducts) = Len(fe'.products)
              /\ \A n \in DOMAIN fe'.trackedProducts :
                   LET t == fe'.trackedProducts[n]
                       old == WithTitle(fe.trackedProducts, t.scraped.title)
                   IN  /\ t.scraped = fe'.products[n]
                       /\ \A m \in old :
                            Cardinality(old) = 1 => t.ourPrice = fe.trackedProducts[m].ourPrice
              /\ \E added \in 0 .. Len(fe'.alerts) :
                   /\ fe'.alerts = SubSeq(fe'.alerts, 1, added) \o fe.alerts
                   /\ added > 0 => fe.pending[1].forceRefresh
                   /\ \A a \in 1 .. added :
                        \E n \in DOMAIN fe'.trackedProducts :
                          LET t == fe'.trackedProducts[n]
                          IN  /\ fe'.alerts[a].productName = t.scraped.title
                              /\ fe'.alerts[a].newPrice = t.scrapedPriceNum
                              /\ \E m \in WithTitle(fe.trackedProducts, t.scraped.title) :
                                   t.scrapedPriceNum < fe.trackedProducts[m].scrapedPriceNum]_vars

\* C36: after every step each tracked product has isRivalCheaper =
\* (scrapedPriceNum < ourPrice) and priceDiff = ourPrice - scrapedPriceNum,
\* and the two counts of the summary add up to the number of tracked
\* products, each counting the products on its side; updateOurPrice(id, p)
\* gives the products of scraped id id the price p and leaves the others,
\* and the scraped data of all, as they were.
C36_TrackedConsistent ==
  [][/\ \A n \in DOMAIN fe'.trackedProducts :
          LET t == fe'.trackedProducts[n]
          IN  /\ t.isRivalCheaper = (t.scrapedPriceNum < t.ourPrice)
              /\ t.priceDiff = t.ourPrice - t.scrapedPriceNum
     /\ RivalCheaperCount' + OurCheaperCount' = TotalProducts'
     /\ OurCheaperCount' =
          Cardinality({n \in DOMAIN fe'.trackedProducts :
                         fe'.trackedProducts[n].ourPrice
                           <= fe'.trackedProducts[n].scrapedPriceNum})
     /\ \A productId \in 1 .. MaxProducts, newPrice \in NewPrices :
          UpdateOurPrice(productId, newPrice) =>
            /\ DOMAIN fe'.trackedProducts = DOMAIN fe.trackedProducts
            /\ \A n \in DOMAIN fe.trackedProducts :
                 LET t == fe.trackedProducts[n]
                     u == fe'.trackedProducts[n]
                 IN  IF t.scraped.id = productId
                       THEN /\ u.ourPrice = newPrice
                            /\ u.scraped = t.scraped
                            /\ u.scrapedPriceNum = t.scrapedPriceNum
                       ELSE u = t]_vars

\* Two tracked products, one priced by the user above the rival's price,
\* the other below it.
C36_Witness ==
  /\ fe.page = "demo"
  /\ Len(fe.trackedProducts) = 2
  /\ RivalCheaperCount = 1
  /\ OurCheaperCount = 1
  /\ \E n \in DOMAIN fe.trackedProducts :
       /\ fe.trackedProducts[n].ourPrice = 1000
       /\ fe.trackedProducts[n].scrapedPriceNum # 0

\* C37: on the same cards the standalone script and the server's
\* scrapeProducts keep the same cards (after every card the two result lists
\* have the same length), in the same order with the same title, price and
\* url; the server's record is the script's with id = its position added and
\* "https:" put before an image that starts with "//".
C37_ScriptMatchesServer ==
  (run.server # None /\ run.script # None) =>
    LET server == run.server[1]
        script == run.script[1]
    IN  /\ \A k \in 0 .. Len(run.cards) :
             Len(Evaluate(SubSeq(run.cards, 1, k)))
               = Len(ScriptEvaluate(SubSeq(run.cards, 1, k)))
        /\ Len(server) = Len(script)
        /\ \A n \in DOMAIN server :
             /\ <<server[n].title, server[n].price, server[n].url>>
                  = <<script[n].title, script[n].price, script[n].url>>
             /\ server[n] =
                  [id |-> n, title |-> script[n].title, price |-> script[n].price,
                   url |-> script[n].url,
                   image |-> IF StartsWith(script[n].image, "//")
                               THEN "https:" \o script[n].image
                               ELSE script[n].image]

\* Both have run on three cards of which one was dropped as a duplicate, and
\* a record of the script has a protocol-relative image.
C37_Witness ==
  /\ run.server # None
  /\ run.script # None
  /\ Len(run.cards) = 3
  /\ Len(run.script[1]) = 2
  /\ run.cards[1].tag = "a"
  /\ run.cards[2].tag = "a"
  /\ Url(Some(run.cards[1].href)) = Url(Some(run.cards[2].href))
  /\ \E n \in DOMAIN run.script[1] : StartsWith(run.script[1][n].image, "//")
====
